---- MODULE Spec2Model ----
(***************************************************************************)
(* State-machine model of the PromptQL pipeline of tdb-fork:                *)
(*   - QueryExecutor.execute / cancel       (tdbai/promptql/executor.py)    *)
(*   - PromptQLEngine.query/explain/suggest (lumaai/promptql/engine.py)     *)
(*   - RateLimiter, LLMCache, _call_llm     (lumaai/promptql/llm.py)        *)
(*   - QueryMemory, ConversationContext     (lumaai/promptql/context.py)    *)
(*   - QueryPlanner.create_plan             (lumaai/promptql/planner.py)    *)
(*   - the sort, aggregate and join operators and the row cap of            *)
(*     QueryExecutor                        (tdbai/promptql/executor.py)    *)
(*   - SchemaInference, RelationshipDetector (tdbai/promptql/schema.py)     *)
(*   - AIQueryOptimizer.optimize            (tdbai/promptql/optimizer.py)   *)
(*   - MultiStepReasoner.reason             (tdbai/promptql/reasoner.py)    *)
(* Each component has its own specification over the shared variables;      *)
(* the variables of the other components stay at their initial values.      *)
(***************************************************************************)
EXTENDS Integers, Sequences, FiniteSets, TLC

(***************************************************************************)
(* Bounds of the model                                                      *)
(***************************************************************************)
\* largest value of the executor's millisecond clock
MaxTime == 3
\* longest plan (number of steps) handed to execute
MaxPlanSteps == 2

\* the coroutines that call QueryExecutor.execute concurrently
Tasks == {"t1", "t2"}
\* ctx.timeout_ms values tried
Timeouts == {1, 2}

NoId == 0 - 1

(***************************************************************************)
(* Executor state                                                           *)
(***************************************************************************)
VARIABLES
    clock,        \* time.time() in ms, shared wall clock of the executor
    execPc,       \* per task: "idle", "running", "returned"
    execId,       \* per task: execution_id of its current execute call
    execStart,    \* per task: start_time
    execTimeout,  \* per task: ctx.timeout_ms
    execPlanLen,  \* per task: len(ctx.plan.steps)
    execStatus,   \* per task: status of the ExecutionState object it created
    execStep,     \* per task: state.current_step
    execResult,   \* per task: the ExecutionResult returned by execute
    execOutcome,  \* per task: how wait_for(_execute_plan) ended, and str(e) if it raised
    active        \* active_executions: execution_id -> task whose state is registered

\* PromptQLEngine state
VARIABLES
    engCaching,   \* config.enable_caching
    engCache,     \* _cache and _cache_timestamps: key -> [result, ts]
    engContext,   \* self.context, the engine's one ConversationContext
    engStats,     \* _stats
    engCalls,     \* per session: number of entry-point calls made so far
    engLast       \* per session: the latest entry-point call and how it ended

engVars == <<engCaching, engCache, engContext, engStats, engCalls, engLast>>

\* RateLimiter state
VARIABLES
    limTokens,     \* self.tokens, in units of 1/TokenScale token
    limLastRefill, \* self.last_refill: the clock when the latest acquire entered
    limLock,       \* self._lock: "free" or the task holding it
    limWakeAt,     \* when the sleep of the holder of the lock ends
    limCount,      \* acquire calls that have entered the lock so far
    limReturned,   \* acquire calls that have returned
    limFirstAt,    \* clock at which the first acquire entered
    limLastWait,   \* wait_time of the latest acquire (0: it did not sleep)
    limBlockedAt   \* number of the first acquire that slept, 0 if none did

limVars == <<limTokens, limLastRefill, limLock, limWakeAt, limCount, limReturned,
             limFirstAt, limLastWait, limBlockedAt>>

\* QueryLLMIntegration state
VARIABLES
    llmCacheEnabled, \* config.cache_enabled
    llmCache,        \* LLMCache.cache, in insertion order: [key, resp, ts]
    llmPc,           \* per task: position inside _call_llm
    llmKey,          \* per task: (prompt, temperature) of its call
    llmAttempt,      \* per task: the loop variable attempt
    llmCalls,        \* per task: provider invocations made by its call
    llmSleeps,       \* per task: the backoff sleeps of its call, in seconds
    llmStored,       \* per task: the responses its call put into the cache
    llmResult,       \* per task: the response returned (0: none)
    llmStarted,      \* _call_llm calls started so far
    llmResponses     \* responses the provider has produced so far

llmVars == <<llmCacheEnabled, llmCache, llmPc, llmKey, llmAttempt, llmCalls,
             llmSleeps, llmStored, llmResult, llmStarted, llmResponses>>

\* QueryMemory state
VARIABLES
    memMaxSize,   \* self.max_size
    memories,     \* self.memories, in the dict's insertion order
    memPatterns,  \* self.query_patterns: the patterns counted so far, most recent last
    memOps,       \* store and recall calls made so far
    memLast       \* the latest call, what it returned and what it evicted

memVars == <<memMaxSize, memories, memPatterns, memOps, memLast>>

\* one ConversationContext and its callers
VARIABLES
    convCtx,      \* the ConversationContext object
    ctxAdded,     \* add_turn calls made so far
    ctxIds,       \* the turn_id of the QueryTurn each add_turn returned, in call order
    ctxResolved   \* what the latest call returned, if it was resolve_reference

ctxVars == <<convCtx, ctxAdded, ctxIds, ctxResolved>>

\* ContextManager state
VARIABLES
    mgrHeap,      \* the ConversationContext objects created so far; oid = position
    mgrContexts,  \* self.contexts: session id -> oid
    mgrActive,    \* self.active_session ("None": None)
    mgrCalls,     \* calls made on the manager so far
    mgrLast       \* the latest call and the object it returned

mgrVars == <<mgrHeap, mgrContexts, mgrActive, mgrCalls, mgrLast>>

\* QueryPlanner state
VARIABLES
    planCounter,  \* self._step_counter
    planCalls,    \* create_plan calls made so far
    planLast      \* the QueryPlan the latest create_plan returned

planVars == <<planCounter, planCalls, planLast>>

\* the data operators of the executor, each applied to a relation
VARIABLES
    opData,       \* the working relation handed to the operator
    opRight,      \* what the scan of the right collection of a join returned
    opCount,      \* operator calls made on opData so far
    opPrev,       \* the call before the latest
    opLast        \* the latest call and what it returned

opVars == <<opData, opRight, opCount, opPrev, opLast>>

\* schema inference and the relationship detector
VARIABLES
    schSchemas,   \* the schemas dictionary handed to detect, in insertion order
    schDetected,  \* what the latest detect call returned
    schChanged    \* whether schemas was written to after that call

schVars == <<schSchemas, schDetected, schChanged>>

\* the query optimizer
VARIABLES
    optPlan,    \* plan.steps of the plan object the caller holds
    optBefore,  \* plan.steps as they were when optimize was called
    optResult   \* the OptimizationResult of the call

optVars == <<optPlan, optBefore, optResult>>

\* the multi-step reasoner
VARIABLES
    reaPrompt,  \* the words of the prompt the caller is writing
    reaResult   \* the chain of the reason call and the list it returned

reaVars == <<reaPrompt, reaResult>>

execVars == <<execPc, execId, execStart, execTimeout, execPlanLen,
              execStatus, execStep, execResult, execOutcome, active>>

vars == <<clock, execVars, engVars, limVars, llmVars, memVars, ctxVars, mgrVars, planVars, opVars, schVars, optVars, reaVars>>

\* what the actions of one component leave alone
ExecFrame == UNCHANGED <<engVars, limVars, llmVars, memVars, ctxVars, mgrVars, planVars, opVars, schVars, optVars, reaVars>>
EngFrame == UNCHANGED <<execVars, limVars, llmVars, memVars, ctxVars, mgrVars, planVars, opVars, schVars, optVars, reaVars>>
LimFrame == UNCHANGED <<execVars, engVars, llmVars, memVars, ctxVars, mgrVars, planVars, opVars, schVars, optVars, reaVars>>
LlmFrame == UNCHANGED <<execVars, engVars, memVars, ctxVars, mgrVars, planVars, opVars, schVars, optVars, reaVars>>
MemFrame == UNCHANGED <<execVars, engVars, limVars, llmVars, ctxVars, mgrVars, planVars, opVars, schVars, optVars, reaVars>>
CtxFrame == UNCHANGED <<execVars, engVars, limVars, llmVars, memVars, mgrVars, planVars, opVars, schVars, optVars, reaVars>>
MgrFrame == UNCHANGED <<clock, execVars, engVars, limVars, llmVars, memVars, ctxVars, planVars, opVars, schVars, optVars, reaVars>>
PlanFrame == UNCHANGED <<clock, execVars, engVars, limVars, llmVars, memVars, ctxVars, mgrVars, opVars, schVars, optVars, reaVars>>
OpFrame == UNCHANGED <<clock, execVars, engVars, limVars, llmVars, memVars, ctxVars, mgrVars, planVars, schVars, optVars, reaVars>>
SchFrame == UNCHANGED <<clock, execVars, engVars, limVars, llmVars, memVars, ctxVars, mgrVars, planVars, opVars, optVars, reaVars>>
OptFrame == UNCHANGED <<clock, execVars, engVars, limVars, llmVars, memVars, ctxVars, mgrVars, planVars, opVars, schVars, reaVars>>
ReaFrame == UNCHANGED <<clock, execVars, engVars, limVars, llmVars, memVars, ctxVars, mgrVars, planVars, opVars, schVars, optVars>>

Terminal == {"COMPLETED", "FAILED", "CANCELLED"}

\* messages of the exceptions a plan step can raise
StepErrors == {"io_error", "type_error"}

NoResult == [success |-> FALSE, status |-> "NONE", dataNull |-> TRUE,
             row_count |-> 0, error |-> "none", error_ms |-> 0]

NoOutcome == [kind |-> "none", msg |-> "none"]

\* executor.py:96  execution_id = f"exec_{int(start_time * 1000)}"
ExecutionId(start_ms) == start_ms

\* executor.py:103  self.active_executions[execution_id] = state
Register(act, id, t) ==
    [i \in (DOMAIN act) \cup {id} |-> IF i = id THEN t ELSE act[i]]

\* mutant of PopExecution: the finally clause forgets to remove the entry
PopExecution_Kept(act, id) == act

\* executor.py:150-151  finally: self.active_executions.pop(execution_id, None)
PopExecution(act, id) ==
    [i \in (DOMAIN act) \ {id} |-> act[i]]

\* executor.py:115-122  the result of a plan that finished in time
CompletedResult(rows) ==
    [success |-> TRUE, status |-> "COMPLETED", dataNull |-> FALSE,
     row_count |-> rows, error |-> "none", error_ms |-> 0]

\* executor.py:128-135  the result of asyncio.TimeoutError
TimeoutResult(timeout_ms) ==
    [success |-> FALSE, status |-> "FAILED", dataNull |-> TRUE,
     row_count |-> 0, error |-> "Query timeout after", error_ms |-> timeout_ms]

\* executor.py:141-148  the result of any other exception, error = str(e)
FailedResult(msg) ==
    [success |-> FALSE, status |-> "FAILED", dataNull |-> TRUE,
     row_count |-> 0, error |-> msg, error_ms |-> 0]

\* executor.py:113  state.status = ExecutionStatus.COMPLETED
StatusOnCompletion(old) == "COMPLETED"

\* executor.py:125,138  state.status = ExecutionStatus.FAILED
StatusOnFailure(old) == "FAILED"

ExecInit ==
    /\ execPc = [t \in Tasks |-> "idle"]
    /\ execId = [t \in Tasks |-> NoId]
    /\ execStart = [t \in Tasks |-> 0]
    /\ execTimeout = [t \in Tasks |-> 0]
    /\ execPlanLen = [t \in Tasks |-> 0]
    /\ execStatus = [t \in Tasks |-> "NONE"]
    /\ execStep = [t \in Tasks |-> 0]
    /\ execResult = [t \in Tasks |-> NoResult]
    /\ execOutcome = [t \in Tasks |-> NoOutcome]
    /\ active = [i \in {} |-> "t1"]

\* executor.py:95-103  execute up to the registration of the new state
ExecStart(t, n, tmo) ==
    /\ ExecFrame
    /\ execPc[t] \in {"idle", "returned"}
    /\ execPc' = [execPc EXCEPT ![t] = "running"]
    /\ execStart' = [execStart EXCEPT ![t] = clock]
    /\ execId' = [execId EXCEPT ![t] = ExecutionId(clock)]
    /\ execTimeout' = [execTimeout EXCEPT ![t] = tmo]
    /\ execPlanLen' = [execPlanLen EXCEPT ![t] = n]
    /\ execStatus' = [execStatus EXCEPT ![t] = "RUNNING"]
    /\ execStep' = [execStep EXCEPT ![t] = 0]
    /\ execResult' = [execResult EXCEPT ![t] = NoResult]
    /\ execOutcome' = [execOutcome EXCEPT ![t] = NoOutcome]
    /\ active' = Register(active, ExecutionId(clock), t)
    /\ UNCHANGED clock

\* executor.py:168-227  one iteration of the step loop of _execute_plan
ExecStep(t) ==
    /\ ExecFrame
    /\ execPc[t] = "running"
    /\ execStep[t] < execPlanLen[t]
    /\ execStep' = [execStep EXCEPT ![t] = @ + 1]
    /\ UNCHANGED <<clock, execPc, execId, execStart, execTimeout, execPlanLen,
                   execStatus, execResult, execOutcome, active>>

\* executor.py:107-122,150-151  the plan finished before the deadline
ExecComplete(t) ==
    /\ ExecFrame
    /\ execPc[t] = "running"
    /\ execStep[t] = execPlanLen[t]
    /\ execStatus' = [execStatus EXCEPT ![t] = StatusOnCompletion(@)]
    /\ execResult' = [execResult EXCEPT ![t] = CompletedResult(0)]
    /\ execOutcome' = [execOutcome EXCEPT ![t] = [kind |-> "finished", msg |-> "none"]]
    /\ active' = PopExecution(active, execId[t])
    /\ execPc' = [execPc EXCEPT ![t] = "returned"]
    /\ UNCHANGED <<clock, execId, execStart, execTimeout, execPlanLen, execStep>>

\* executor.py:107-110,124-135,150-151  wait_for raised asyncio.TimeoutError
ExecTimeout(t) ==
    /\ ExecFrame
    /\ execPc[t] = "running"
    /\ clock - execStart[t] >= execTimeout[t]
    /\ execStatus' = [execStatus EXCEPT ![t] = StatusOnFailure(@)]
    /\ execResult' = [execResult EXCEPT ![t] = TimeoutResult(execTimeout[t])]
    /\ execOutcome' = [execOutcome EXCEPT ![t] = [kind |-> "timeout", msg |-> "none"]]
    /\ active' = PopExecution(active, execId[t])
    /\ execPc' = [execPc EXCEPT ![t] = "returned"]
    /\ UNCHANGED <<clock, execId, execStart, execTimeout, execPlanLen, execStep>>

\* executor.py:137-148,150-151  a step of the plan raised
ExecFail(t, msg) ==
    /\ ExecFrame
    /\ execPc[t] = "running"
    /\ execStep[t] < execPlanLen[t]
    /\ execStatus' = [execStatus EXCEPT ![t] = StatusOnFailure(@)]
    /\ execResult' = [execResult EXCEPT ![t] = FailedResult(msg)]
    /\ execOutcome' = [execOutcome EXCEPT ![t] = [kind |-> "raised", msg |-> msg]]
    /\ active' = PopExecution(active, execId[t])
    /\ execPc' = [execPc EXCEPT ![t] = "returned"]
    /\ UNCHANGED <<clock, execId, execStart, execTimeout, execPlanLen, execStep>>

\* executor.py:568-574  cancel(execution_id)
Cancel(id) ==
    /\ ExecFrame
    /\ id \in DOMAIN active
    /\ execStatus' = [execStatus EXCEPT ![active[id]] = "CANCELLED"]
    /\ UNCHANGED <<clock, execPc, execId, execStart, execTimeout, execPlanLen,
                   execStep, execResult, execOutcome, active>>

ExecNext ==
    \/ \E t \in Tasks, n \in 0..MaxPlanSteps, tmo \in Timeouts : ExecStart(t, n, tmo)
    \/ \E t \in Tasks : ExecStep(t)
    \/ \E t \in Tasks : ExecComplete(t)
    \/ \E t \in Tasks : ExecTimeout(t)
    \/ \E t \in Tasks, msg \in StepErrors : ExecFail(t, msg)
    \/ \E id \in 0..MaxTime : Cancel(id)

(***************************************************************************)
(* ConversationContext (lumaai/promptql/context.py) as a value              *)
(***************************************************************************)
\* the prompts tried
Prompts == {"p1", "p2"}

\* entities dicts passed to add_turn, as (entity_type, value) pairs in the
\* dict's iteration order
EntityInputs ==
    { <<>>,
      << <<"collection", "users">> >>,
      << <<"field", "age">> >>,
      << <<"field", "age">>, <<"collection", "users">> >> }

\* the methods class ConversationContext defines (context.py:74-275)
ConversationContextMethods ==
    {"__init__", "_generate_session_id", "add_turn", "_track_entities",
     "get_recent_context", "get_relevant_entities", "resolve_reference",
     "get_active_collection", "set_filter", "clear_filter", "clear_all_filters",
     "get_filters", "set_preference", "get_preference", "compress_context",
     "to_dict"}

\* context.py:74-82  ConversationContext.__init__
NewContext(oid, max_turns, sid) ==
    [oid |-> oid, session_id |-> sid, max_turns |-> max_turns,
     turns |-> <<>>, entities |-> <<>>, current_turn_id |-> 0,
     active_filters |-> {}]

\* mutant of DequeAppend: the buffer has no capacity
DequeAppend_Unbounded(turns, turn, maxlen) == Append(turns, turn)

\* context.py:77,114  append to deque(maxlen=max_turns)
DequeAppend(turns, turn, maxlen) ==
    IF maxlen = 0 THEN <<>>
    ELSE IF Len(turns) >= maxlen THEN Append(Tail(turns), turn)
    ELSE Append(turns, turn)

\* index of the entity stored under key, 0 if none (context.py:133)
EntityIndex(entities, key) ==
    IF \E i \in 1..Len(entities) : entities[i].key = key
    THEN CHOOSE i \in 1..Len(entities) : entities[i].key = key
    ELSE 0

\* context.py:131-144  one (entity_type, value) pair of _track_entities
TrackOne(entities, pair, turn_id) ==
    LET i == EntityIndex(entities, pair) IN
    IF i # 0
    THEN [entities EXCEPT ![i] = [@ EXCEPT !.last_mention = turn_id,
                                           !.mention_count = @ + 1]]
    ELSE Append(entities,
                [key |-> pair, name |-> pair[2], entity_type |-> pair[1],
                 first_mention |-> turn_id, last_mention |-> turn_id,
                 mention_count |-> 1])

\* context.py:121-144  _track_entities
RECURSIVE TrackEntities(_, _, _)
TrackEntities(entities, pairs, turn_id) ==
    IF pairs = <<>> THEN entities
    ELSE TrackEntities(TrackOne(entities, Head(pairs), turn_id), Tail(pairs), turn_id)

\* context.py:100  self.current_turn_id += 1
NextTurnId(current) == current + 1

\* context.py:89-119  add_turn
AddTurn(ctx, query, ents) ==
    LET id == NextTurnId(ctx.current_turn_id)
        turn == [turn_id |-> id, query |-> query, entities |-> ents]
    IN [ctx EXCEPT !.current_turn_id = id,
                   !.turns = DequeAppend(ctx.turns, turn, ctx.max_turns),
                   !.entities = TrackEntities(ctx.entities, ents, id)]

\* context.py:56-60  relevance_score = 0.6 / (1 + current_turn - last_mention)
\* + 0.4 * min(1, mention_count / 5), as the exact fraction ScoreNum / ScoreDen
ScoreNum(ref, current_turn) ==
    LET m == IF ref.mention_count > 5 THEN 5 ELSE ref.mention_count
    IN 15 + 2 * m * (1 + (current_turn - ref.last_mention))

ScoreDen(ref, current_turn) == 25 * (1 + (current_turn - ref.last_mention))

\* score of a > score of b
ScoreGreater(a, b, current_turn) ==
    ScoreNum(a, current_turn) * ScoreDen(b, current_turn)
        > ScoreNum(b, current_turn) * ScoreDen(a, current_turn)

\* context.py:155-156  score >= threshold, the threshold in tenths
ScoreAtLeast(ref, tenths, current_turn) ==
    10 * ScoreNum(ref, current_turn) >= tenths * ScoreDen(ref, current_turn)

\* context.py:154-157  the entities that pass the threshold, in dict order
RECURSIVE RelevantOnly(_, _, _)
RelevantOnly(entities, tenths, current_turn) ==
    IF entities = <<>> THEN <<>>
    ELSE (IF ScoreAtLeast(Head(entities), tenths, current_turn)
          THEN <<Head(entities)>> ELSE <<>>)
         \o RelevantOnly(Tail(entities), tenths, current_turn)

\* the entity sort(reverse=True) puts first: the greatest score, the earliest
\* in the list among equals (context.py:160)
TopIndex(refs, current_turn) ==
    CHOOSE i \in 1..Len(refs) :
        \A j \in 1..Len(refs) :
            \/ ScoreGreater(refs[i], refs[j], current_turn)
            \/ (~ScoreGreater(refs[j], refs[i], current_turn) /\ i <= j)

\* context.py:160  relevant.sort(key=relevance_score, reverse=True)
RECURSIVE SortByRelevance(_, _)
SortByRelevance(refs, current_turn) ==
    IF refs = <<>> THEN <<>>
    ELSE LET i == TopIndex(refs, current_turn)
         IN <<refs[i]>> \o
            SortByRelevance(SubSeq(refs, 1, i - 1) \o SubSeq(refs, i + 1, Len(refs)),
                            current_turn)

\* context.py:151-161  get_relevant_entities
GetRelevantEntities(ctx, tenths) ==
    SortByRelevance(RelevantOnly(ctx.entities, tenths, ctx.current_turn_id),
                    ctx.current_turn_id)

\* the name of the first entity of the given type, "None" if there is none
FirstOfType(refs, entity_type) ==
    IF \E i \in 1..Len(refs) : refs[i].entity_type = entity_type
    THEN refs[CHOOSE i \in 1..Len(refs) :
                 /\ refs[i].entity_type = entity_type
                 /\ \A j \in 1..(i - 1) : refs[j].entity_type # entity_type].name
    ELSE "None"

\* the references passed to resolve_reference
References == {"it", "them", "that field", "the table"}

\* context.py:163-199  resolve_reference
ResolveReference(ctx, reference) ==
    IF reference \in {"it", "that", "this"}
    THEN LET recent == GetRelevantEntities(ctx, 0)
         IN IF recent # <<>> THEN recent[1].name ELSE "None"
    ELSE IF reference \in {"they", "them", "those", "these"}
    THEN FirstOfType(GetRelevantEntities(ctx, 3), "collection")
    ELSE IF reference = "that field"
    THEN FirstOfType(GetRelevantEntities(ctx, 3), "field")
    ELSE IF reference = "the table"
    THEN FirstOfType(GetRelevantEntities(ctx, 3), "collection")
    ELSE "None"

(***************************************************************************)
(* PromptQLEngine (lumaai/promptql/engine.py)                               *)
(***************************************************************************)
\* the sessions (callers) served by the one engine
Sessions == {"A", "B"}
\* the context argument of query: None, or a dict
QueryContexts == {"None", "ctx"}
\* calls per session
MaxCalls == 2
\* config.cache_ttl_seconds, in ticks of the model's clock
CacheTtl == 1
\* config.max_context_turns, scaled
EngineMaxTurns == 2

\* the collaborator that raises during a call, or "none"
Failures == {"none", "schema", "planner", "reasoner", "optimizer", "executor"}

NoCall == [op |-> "none", prompt |-> "none", ctx |-> "None", fail |-> "none",
           outcome |-> "none", success |-> FALSE, cached |-> FALSE,
           error |-> "none"]

\* engine.py:300-305  _cache_key: hash((prompt,)) or hash((prompt, json(context)))
CacheKey(prompt, ctx) ==
    IF ctx = "None" THEN <<prompt>> ELSE <<prompt, ctx>>

\* engine.py:307-318  _get_cached returns an entry
CacheHit(cache, key, now) ==
    /\ key \in DOMAIN cache
    /\ ~(now - cache[key].ts > CacheTtl)

\* engine.py:312-316  _get_cached deletes an entry older than the TTL
AfterGetCached(cache, key, now) ==
    IF key \in DOMAIN cache /\ now - cache[key].ts > CacheTtl
    THEN [k \in (DOMAIN cache) \ {key} |-> cache[k]]
    ELSE cache

\* engine.py:320-323  _set_cached
SetCached(cache, key, result, now) ==
    [k \in (DOMAIN cache) \cup {key} |->
        IF k = key THEN [result |-> result, ts |-> now] ELSE cache[k]]

\* engine.py:104  every query, whatever its session, uses self.context
SessionContext(s) == engContext

\* engine.py:154,204  add_query / add_result, which ConversationContext lacks
RecordTurn(ctx, prompt) == AddTurn(ctx, prompt, <<>>)

\* engine.py:215-228  a failure caught at the boundary of query
FailedQuery(s, prompt, c, fail, err) ==
    [op |-> "query", prompt |-> prompt, ctx |-> c, fail |-> fail,
     outcome |-> "returned", success |-> FALSE, cached |-> FALSE, error |-> err]

EngInit(caching) ==
    /\ engCaching \in caching
    /\ engCache = [k \in {} |-> 0]
    /\ engContext = NewContext(0, EngineMaxTurns, "engine")
    /\ engStats = [queries_processed |-> 0, cache_hits |-> 0]
    /\ engCalls = [s \in Sessions |-> 0]
    /\ engLast = [s \in Sessions |-> NoCall]

\* engine.py:121-228  query(prompt, mode, context), called by session s
Query(s, prompt, c, fail) ==
    LET key == CacheKey(prompt, c) IN
    /\ EngFrame
    /\ engCalls[s] < MaxCalls
    /\ engCalls' = [engCalls EXCEPT ![s] = @ + 1]
    /\ UNCHANGED <<clock, engCaching>>
    /\ IF engCaching /\ CacheHit(engCache, key, clock)
       THEN \* engine.py:148-151
            /\ engStats' = [engStats EXCEPT !.cache_hits = @ + 1]
            /\ engLast' = [engLast EXCEPT ![s] =
                  [op |-> "query", prompt |-> prompt, ctx |-> c, fail |-> fail,
                   outcome |-> "returned",
                   success |-> engCache[key].result.success,
                   cached |-> TRUE, error |-> engCache[key].result.error]]
            /\ UNCHANGED <<engCache, engContext>>
       ELSE IF "add_query" \notin ConversationContextMethods
       THEN \* engine.py:154  AttributeError, caught at engine.py:222-228
            /\ engCache' = IF engCaching THEN AfterGetCached(engCache, key, clock)
                           ELSE engCache
            /\ engLast' = [engLast EXCEPT ![s] =
                  FailedQuery(s, prompt, c, fail, "AttributeError")]
            /\ UNCHANGED <<engContext, engStats>>
       ELSE IF fail # "none"
       THEN \* engine.py:156-188  a collaborator raised, engine.py:215-228
            /\ engCache' = IF engCaching THEN AfterGetCached(engCache, key, clock)
                           ELSE engCache
            /\ engContext' = RecordTurn(engContext, prompt)
            /\ engLast' = [engLast EXCEPT ![s] = FailedQuery(s, prompt, c, fail, fail)]
            /\ UNCHANGED engStats
       ELSE \* engine.py:156-213  the whole pipeline ran
            LET result == [success |-> TRUE, error |-> "none"] IN
            /\ engContext' = RecordTurn(engContext, prompt)
            /\ engCache' = IF engCaching
                           THEN SetCached(AfterGetCached(engCache, key, clock),
                                          key, result, clock)
                           ELSE engCache
            /\ engStats' = [engStats EXCEPT !.queries_processed = @ + 1]
            /\ engLast' = [engLast EXCEPT ![s] =
                  [op |-> "query", prompt |-> prompt, ctx |-> c, fail |-> fail,
                   outcome |-> "returned", success |-> TRUE, cached |-> FALSE,
                   error |-> "none"]]

\* engine.py:230-262  explain(prompt): no try/except around its body
Explain(s, prompt, fail) ==
    /\ EngFrame
    /\ engCalls[s] < MaxCalls
    /\ engCalls' = [engCalls EXCEPT ![s] = @ + 1]
    /\ engLast' = [engLast EXCEPT ![s] =
          IF fail = "schema"
          THEN \* engine.py:240 raises
               [NoCall EXCEPT !.op = "explain", !.prompt = prompt, !.fail = fail,
                              !.outcome = "raised", !.error = fail]
          ELSE IF "get_context" \notin ConversationContextMethods
          THEN \* engine.py:244  AttributeError
               [NoCall EXCEPT !.op = "explain", !.prompt = prompt, !.fail = fail,
                              !.outcome = "raised", !.error = "AttributeError"]
          ELSE IF fail \in {"planner", "reasoner"}
          THEN [NoCall EXCEPT !.op = "explain", !.prompt = prompt, !.fail = fail,
                              !.outcome = "raised", !.error = fail]
          ELSE [NoCall EXCEPT !.op = "explain", !.prompt = prompt, !.fail = fail,
                              !.outcome = "returned", !.success = TRUE]]
    /\ UNCHANGED <<clock, engCaching, engCache, engContext, engStats>>

\* engine.py:264-279  suggest(partial_prompt): no try/except around its body
Suggest(s, prompt, fail) ==
    /\ EngFrame
    /\ engCalls[s] < MaxCalls
    /\ engCalls' = [engCalls EXCEPT ![s] = @ + 1]
    /\ engLast' = [engLast EXCEPT ![s] =
          IF fail = "schema"
          THEN \* engine.py:274 raises
               [NoCall EXCEPT !.op = "suggest", !.prompt = prompt, !.fail = fail,
                              !.outcome = "raised", !.error = fail]
          ELSE IF "get_context" \notin ConversationContextMethods
          THEN \* engine.py:278  AttributeError
               [NoCall EXCEPT !.op = "suggest", !.prompt = prompt, !.fail = fail,
                              !.outcome = "raised", !.error = "AttributeError"]
          ELSE IF fail = "planner"
          THEN [NoCall EXCEPT !.op = "suggest", !.prompt = prompt, !.fail = fail,
                              !.outcome = "raised", !.error = fail]
          ELSE [NoCall EXCEPT !.op = "suggest", !.prompt = prompt, !.fail = fail,
                              !.outcome = "returned", !.success = TRUE]]
    /\ UNCHANGED <<clock, engCaching, engCache, engContext, engStats>>

\* engine.py:285-288  clear_cache
ClearCache ==
    /\ EngFrame
    /\ engCache' = [k \in {} |-> 0]
    /\ UNCHANGED <<clock, engCaching, engContext, engStats, engCalls, engLast>>

EngNext ==
    \/ \E s \in Sessions, q \in Prompts, c \in QueryContexts, f \in Failures :
          Query(s, q, c, f)
    \/ \E s \in Sessions, q \in Prompts, f \in Failures : Explain(s, q, f)
    \/ \E s \in Sessions, q \in Prompts, f \in Failures : Suggest(s, q, f)
    \/ ClearCache

(***************************************************************************)
(* RateLimiter (lumaai/promptql/llm.py)                                     *)
(***************************************************************************)
\* LLMConfig.rate_limit_rpm
Rpm == 60
\* resolution of the clock: ticks per second
TicksPerSecond == 2
\* tokens are counted in units of 1/TokenScale
TokenScale == TicksPerSecond
\* acquire calls made in a run
MaxAcquires == Rpm + 2

\* mutant of InitialTokens: the bucket starts one token short
InitialTokens_OneShort(rpm) == (rpm - 1) * TokenScale

\* llm.py:292  self.tokens = requests_per_minute
InitialTokens(rpm) == rpm * TokenScale

\* llm.py:302  min(rpm, tokens + elapsed * (rpm / 60)), elapsed in ticks
Refill(tokens, elapsed, rpm) ==
    LET filled == tokens + (elapsed * rpm * TokenScale) \div (60 * TicksPerSecond)
    IN IF filled > rpm * TokenScale THEN rpm * TokenScale ELSE filled

\* llm.py:307  wait_time = (1 - tokens) * (60 / rpm), in ticks
WaitTicks(tokens, rpm) ==
    ((TokenScale - tokens) * 60 * TicksPerSecond) \div (rpm * TokenScale)

LimInit ==
    /\ limTokens = InitialTokens(Rpm)
    /\ limLastRefill = 0
    /\ limLock = "free"
    /\ limWakeAt = 0
    /\ limCount = 0
    /\ limReturned = 0
    /\ limFirstAt = 0
    /\ limLastWait = 0
    /\ limBlockedAt = 0

\* llm.py:297-311  acquire up to its return or to the start of its sleep
LimEnter(t) ==
    LET tokens == Refill(limTokens, clock - limLastRefill, Rpm) IN
    /\ limLock = "free"
    /\ limCount' = limCount + 1
    /\ limFirstAt' = IF limCount = 0 THEN clock ELSE limFirstAt
    /\ limLastRefill' = clock
    /\ IF tokens < TokenScale
       THEN \* llm.py:305-308  sleeps holding the lock
            /\ limTokens' = tokens
            /\ limLock' = t
            /\ limWakeAt' = clock + WaitTicks(tokens, Rpm)
            /\ limLastWait' = WaitTicks(tokens, Rpm)
            /\ limBlockedAt' = IF limBlockedAt = 0 THEN limCount + 1 ELSE limBlockedAt
            /\ UNCHANGED limReturned
       ELSE \* llm.py:310-311
            /\ limTokens' = tokens - TokenScale
            /\ limLastWait' = 0
            /\ limReturned' = limReturned + 1
            /\ UNCHANGED <<limLock, limWakeAt, limBlockedAt>>

\* llm.py:308-309  the sleep is over: self.tokens = 0, the lock is released
LimWake(t) ==
    /\ limLock = t
    /\ clock >= limWakeAt
    /\ limTokens' = 0
    /\ limLock' = "free"
    /\ limReturned' = limReturned + 1
    /\ UNCHANGED <<limLastRefill, limWakeAt, limCount, limFirstAt,
                   limLastWait, limBlockedAt>>

\* a caller awaits RateLimiter.acquire()
Acquire(t) ==
    /\ LimFrame
    /\ limCount < MaxAcquires
    /\ LimEnter(t)
    /\ UNCHANGED clock

AcquireWake(t) ==
    /\ LimFrame
    /\ LimWake(t)
    /\ UNCHANGED clock

LimNext ==
    \/ \E t \in Tasks : Acquire(t)
    \/ \E t \in Tasks : AcquireWake(t)

(***************************************************************************)
(* LLMCache and QueryLLMIntegration._call_llm (lumaai/promptql/llm.py)      *)
(***************************************************************************)
\* LLMConfig.retry_attempts
RetryAttempts == 3
\* LLMCache.max_size, scaled
LlmCacheMax == 1
\* LLMConfig.cache_ttl_seconds, in ticks of the model's clock
LlmCacheTtl == 2
\* _call_llm calls made in a run
MaxLlmCalls == 2
\* the prompts sent to the provider
LlmPrompts == {"p1"}
\* the temperature argument: None (config.temperature is used) or a value
Temperatures == {"None", "0.7"}

\* llm.py:533  temp = temperature if temperature is not None else config.temperature
EffectiveTemp(temperature) ==
    IF temperature = "None" THEN "0.1" ELSE temperature

\* llm.py:251-253  _make_key (config.model is fixed)
LlmKey(prompt, temp) == <<prompt, temp>>

\* position of key in the cache, 0 if absent
LlmIndex(cache, key) ==
    IF \E i \in 1..Len(cache) : cache[i].key = key
    THEN CHOOSE i \in 1..Len(cache) : cache[i].key = key
    ELSE 0

\* the cache without its i-th entry
RemoveAt(seq, i) == SubSeq(seq, 1, i - 1) \o SubSeq(seq, i + 1, Len(seq))

\* llm.py:255-270  LLMCache.get returns a response
LlmCacheHit(cache, key, now) ==
    /\ LlmIndex(cache, key) # 0
    /\ ~(now - cache[LlmIndex(cache, key)].ts > LlmCacheTtl)

\* llm.py:264-266  LLMCache.get deletes an entry older than the TTL
LlmAfterGet(cache, key, now) ==
    LET i == LlmIndex(cache, key) IN
    IF i # 0 /\ now - cache[i].ts > LlmCacheTtl THEN RemoveAt(cache, i) ELSE cache

\* index of the entry sorted() puts first: the smallest timestamp, the
\* earliest inserted among equals (llm.py:279)
OldestIndex(cache) ==
    CHOOSE i \in 1..Len(cache) :
        \A j \in 1..Len(cache) :
            \/ cache[i].ts < cache[j].ts
            \/ (cache[i].ts = cache[j].ts /\ i <= j)

\* llm.py:277-281  remove the oldest entries while over capacity
RECURSIVE LlmEvict(_, _)
LlmEvict(cache, max) ==
    IF Len(cache) <= max THEN cache
    ELSE LlmEvict(RemoveAt(cache, OldestIndex(cache)), max)

\* llm.py:272-281  LLMCache.put
LlmPut(cache, key, resp, now) ==
    LET i == LlmIndex(cache, key)
        entry == [key |-> key, resp |-> resp, ts |-> now]
        put == IF i # 0 THEN [cache EXCEPT ![i] = entry] ELSE Append(cache, entry)
    IN LlmEvict(put, LlmCacheMax)

\* 2 ** attempt
RECURSIVE Pow2(_)
Pow2(n) == IF n = 0 THEN 1 ELSE 2 * Pow2(n - 1)

\* llm.py:559  asyncio.sleep(2 ** attempt), in seconds
BackoffSeconds(attempt) == Pow2(attempt)

\* mutant of SleepsAfter: the last failed attempt is followed by a sleep too
SleepsAfter_Always(attempt, attempts) == TRUE

\* llm.py:558  whether a failed attempt is followed by a sleep
SleepsAfter(attempt, attempts) == attempt < attempts - 1

\* the limiter as _call_llm may find it: untouched, or drained by Rpm earlier calls
LimInitDrained ==
    /\ limTokens = 0
    /\ limLastRefill = 0
    /\ limLock = "free"
    /\ limWakeAt = 0
    /\ limCount = Rpm
    /\ limReturned = Rpm
    /\ limFirstAt = 0
    /\ limLastWait = 0
    /\ limBlockedAt = 0

LlmInit(enabled) ==
    /\ llmCacheEnabled \in enabled
    /\ llmCache = <<>>
    /\ llmPc = [t \in Tasks |-> "idle"]
    /\ llmKey = [t \in Tasks |-> <<"none", "none">>]
    /\ llmAttempt = [t \in Tasks |-> 0]
    /\ llmCalls = [t \in Tasks |-> 0]
    /\ llmSleeps = [t \in Tasks |-> <<>>]
    /\ llmStored = [t \in Tasks |-> <<>>]
    /\ llmResult = [t \in Tasks |-> 0]
    /\ llmStarted = 0
    /\ llmResponses = 0

\* llm.py:527-540  _call_llm up to the cache check
LlmCall(t, prompt, temperature) ==
    LET key == LlmKey(prompt, EffectiveTemp(temperature)) IN
    /\ LlmFrame
    /\ llmPc[t] \in {"idle", "returned", "raised"}
    /\ llmStarted < MaxLlmCalls
    /\ llmStarted' = llmStarted + 1
    /\ llmKey' = [llmKey EXCEPT ![t] = key]
    /\ llmAttempt' = [llmAttempt EXCEPT ![t] = 0]
    /\ llmCalls' = [llmCalls EXCEPT ![t] = 0]
    /\ llmSleeps' = [llmSleeps EXCEPT ![t] = <<>>]
    /\ llmStored' = [llmStored EXCEPT ![t] = <<>>]
    /\ IF llmCacheEnabled /\ LlmCacheHit(llmCache, key, clock)
       THEN /\ llmResult' = [llmResult EXCEPT ![t] =
                                llmCache[LlmIndex(llmCache, key)].resp]
            /\ llmPc' = [llmPc EXCEPT ![t] = "returned"]
            /\ UNCHANGED llmCache
       ELSE /\ llmResult' = [llmResult EXCEPT ![t] = 0]
            /\ llmPc' = [llmPc EXCEPT ![t] = "acquire"]
            /\ llmCache' = IF llmCacheEnabled
                           THEN LlmAfterGet(llmCache, key, clock) ELSE llmCache
    /\ UNCHANGED <<clock, limVars, llmCacheEnabled, llmResponses>>

\* where _call_llm goes after acquire: into the retry loop, or past an empty one
AfterAcquire == IF RetryAttempts > 0 THEN "call" ELSE "raised"

\* llm.py:542  await self.rate_limiter.acquire()
LlmAcquire(t) ==
    /\ LlmFrame
    /\ llmPc[t] = "acquire"
    /\ LimEnter(t)
    /\ llmPc' = [llmPc EXCEPT ![t] = IF limLock' = t THEN "limited" ELSE AfterAcquire]
    /\ UNCHANGED <<clock, llmCacheEnabled, llmCache, llmKey, llmAttempt, llmCalls,
                   llmSleeps, llmStored, llmResult, llmStarted,
                   llmResponses>>

\* llm.py:308-309,542  the sleep inside acquire is over
LlmAcquireWake(t) ==
    /\ LlmFrame
    /\ llmPc[t] = "limited"
    /\ LimWake(t)
    /\ llmPc' = [llmPc EXCEPT ![t] = AfterAcquire]
    /\ UNCHANGED <<clock, llmCacheEnabled, llmCache, llmKey, llmAttempt, llmCalls,
                   llmSleeps, llmStored, llmResult, llmStarted,
                   llmResponses>>

\* llm.py:548-554  the provider answered: cache the response and return it
ProviderOk(t) ==
    LET resp == llmResponses + 1 IN
    /\ LlmFrame
    /\ llmPc[t] = "call"
    /\ llmResponses' = resp
    /\ llmCalls' = [llmCalls EXCEPT ![t] = @ + 1]
    /\ llmCache' = IF llmCacheEnabled
                   THEN LlmPut(llmCache, llmKey[t], resp, clock) ELSE llmCache
    /\ llmStored' = [llmStored EXCEPT ![t] =
                        IF llmCacheEnabled THEN Append(@, resp) ELSE @]
    /\ llmResult' = [llmResult EXCEPT ![t] = resp]
    /\ llmPc' = [llmPc EXCEPT ![t] = "returned"]
    /\ UNCHANGED <<clock, limVars, llmCacheEnabled, llmKey, llmAttempt, llmSleeps, llmStarted>>

\* llm.py:548,556-561  the provider raised: back off, or give up after the last attempt
ProviderFail(t) ==
    /\ LlmFrame
    /\ llmPc[t] = "call"
    /\ llmCalls' = [llmCalls EXCEPT ![t] = @ + 1]
    /\ IF SleepsAfter(llmAttempt[t], RetryAttempts)
       THEN /\ llmSleeps' = [llmSleeps EXCEPT ![t] =
                                Append(@, BackoffSeconds(llmAttempt[t]))]
            /\ llmPc' = [llmPc EXCEPT ![t] = "backoff"]
       ELSE /\ llmPc' = [llmPc EXCEPT ![t] =
                            IF llmAttempt[t] + 1 < RetryAttempts THEN "call" ELSE "raised"]
            /\ UNCHANGED llmSleeps
    /\ llmAttempt' = [llmAttempt EXCEPT ![t] =
                        IF SleepsAfter(@, RetryAttempts) THEN @ ELSE @ + 1]
    /\ UNCHANGED <<clock, limVars, llmCacheEnabled, llmCache, llmKey, llmStored,
                   llmResult, llmStarted, llmResponses>>

\* llm.py:559,546  the backoff sleep is over: next attempt (the length of the
\* sleep is in llmSleeps; the clock may have moved by any amount meanwhile)
BackoffWake(t) ==
    /\ LlmFrame
    /\ llmPc[t] = "backoff"
    /\ llmAttempt' = [llmAttempt EXCEPT ![t] = @ + 1]
    /\ llmPc' = [llmPc EXCEPT ![t] =
                    IF llmAttempt[t] + 1 < RetryAttempts THEN "call" ELSE "raised"]
    /\ UNCHANGED <<clock, limVars, llmCacheEnabled, llmCache, llmKey, llmCalls,
                   llmSleeps, llmStored, llmResult, llmStarted,
                   llmResponses>>

LlmNext ==
    \/ \E t \in Tasks, q \in LlmPrompts, temp \in Temperatures : LlmCall(t, q, temp)
    \/ \E t \in Tasks : LlmAcquire(t)
    \/ \E t \in Tasks : LlmAcquireWake(t)
    \/ \E t \in Tasks : ProviderOk(t)
    \/ \E t \in Tasks : ProviderFail(t)
    \/ \E t \in Tasks : BackoffWake(t)

(***************************************************************************)
(* QueryMemory (lumaai/promptql/context.py)                                 *)
(***************************************************************************)
\* largest max_size a QueryMemory is constructed with (1000 and 10000 in the
\* code, scaled)
MaxMemSize == 2
\* store and recall calls made in a run
MaxMemOps == 4
\* largest max_age_seconds passed to recall
MaxAgeSeconds == 1

\* (normalized_query, schema_hash) arguments; queries are token sequences
MemInputs ==
    { << <<"age", "21">>, "s1" >>,
      << <<"age", "30">>, "s1" >>,
      << <<"age", "21">>, "s2" >> }
Numbers == {"21", "30"}

NoEntry == [key |-> <<>>, query |-> <<>>, intent |-> "", created_at |-> 0,
            access_count |-> 0, last_accessed |-> 0]

NoMemCall == [op |-> "none", key |-> <<>>, max_age |-> 0, found |-> FALSE,
              expired |-> FALSE, entry |-> NoEntry, evicted |-> <<>>,
              similar |-> <<>>]

\* context.py:386-389  _make_key: md5 of "normalized_query:schema_hash"; the
\* tokens hold no ":" and md5 is taken to be free of collisions on them
MakeKey(normalized_query, schema_hash) == <<normalized_query, schema_hash>>

\* context.py:391-399  _extract_pattern: numbers become NUM
ExtractPattern(query) ==
    [i \in 1..Len(query) |-> IF query[i] \in Numbers THEN "NUM" ELSE query[i]]

\* position of key in memories, 0 if absent
MemIndex(mem, key) ==
    IF \E i \in 1..Len(mem) : mem[i].key = key
    THEN CHOOSE i \in 1..Len(mem) : mem[i].key = key
    ELSE 0

\* context.py:305-315  self.memories[key] = MemoryEntry(...): a key already
\* present keeps its place in the dict
PutEntry(mem, key, query, intent, now) ==
    LET i == MemIndex(mem, key)
        entry == [key |-> key, query |-> query, intent |-> intent,
                  created_at |-> now, access_count |-> 1, last_accessed |-> now]
    IN IF i # 0 THEN [mem EXCEPT ![i] = entry] ELSE Append(mem, entry)

\* mutant of EvictionKey: eviction goes by age since creation
EvictionKey_Created(entry) == entry.created_at

\* context.py:409  key=lambda x: x[1].last_accessed
EvictionKey(entry) == entry.last_accessed

\* the entry sorted() puts first: the smallest key, the earliest in the dict
\* among equals (context.py:407-410)
FirstSorted(mem) ==
    CHOOSE i \in 1..Len(mem) :
        \A j \in 1..Len(mem) :
            \/ EvictionKey(mem[i]) < EvictionKey(mem[j])
            \/ (EvictionKey(mem[i]) = EvictionKey(mem[j]) /\ i <= j)

\* entries[:n] of the sorted entries
RECURSIVE SortedPrefix(_, _)
SortedPrefix(mem, n) ==
    IF n <= 0 \/ mem = <<>> THEN <<>>
    ELSE <<mem[FirstSorted(mem)]>> \o SortedPrefix(RemoveAt(mem, FirstSorted(mem)), n - 1)

\* context.py:401-414  the entries _maybe_evict deletes
Evicted(mem, max_size) ==
    IF Len(mem) <= max_size THEN <<>> ELSE SortedPrefix(mem, Len(mem) - max_size)

\* context.py:413-414  del self.memories[key] for each of them
RECURSIVE DeleteAll(_, _)
DeleteAll(mem, entries) ==
    IF entries = <<>> THEN mem
    ELSE DeleteAll(RemoveAt(mem, MemIndex(mem, Head(entries).key)), Tail(entries))

\* context.py:401-414  _maybe_evict
MaybeEvict(mem, max_size) == DeleteAll(mem, Evicted(mem, max_size))

\* mutant of Expired: entries never expire
Expired_Never(created_at, now, max_age_seconds) == FALSE

\* context.py:339-340  age = (now - created_at).total_seconds(); age > max_age_seconds
Expired(created_at, now, max_age_seconds) ==
    now - created_at > max_age_seconds * TicksPerSecond

\* context.py:318-319  query_patterns[pattern] = query_patterns.get(pattern, 0) + 1
CountPattern(patterns, pattern) ==
    [q \in (DOMAIN patterns) \cup {pattern} |->
        IF q = pattern
        THEN (IF q \in DOMAIN patterns THEN patterns[q] ELSE 0) + 1
        ELSE patterns[q]]

MemInit ==
    /\ memMaxSize \in 1..MaxMemSize
    /\ memories = <<>>
    /\ memPatterns = <<>>
    /\ memOps = 0
    /\ memLast = NoMemCall

\* context.py:293-322  store
Store(query, normalized_query, intent, schema_hash) ==
    LET key == MakeKey(normalized_query, schema_hash)
        put == PutEntry(memories, key, query, intent, clock)
    IN
    /\ MemFrame
    /\ memOps < MaxMemOps
    /\ memOps' = memOps + 1
    /\ memPatterns' = CountPattern(memPatterns, ExtractPattern(normalized_query))
    /\ memories' = MaybeEvict(put, memMaxSize)
    /\ memLast' = [op |-> "store", key |-> key, max_age |-> 0, found |-> FALSE,
                   expired |-> FALSE, entry |-> NoEntry,
                   evicted |-> Evicted(put, memMaxSize), similar |-> <<>>]
    /\ UNCHANGED <<clock, memMaxSize>>

\* context.py:324-348  recall
Recall(normalized_query, schema_hash, max_age_seconds) ==
    LET key == MakeKey(normalized_query, schema_hash)
        i == MemIndex(memories, key)
    IN
    /\ MemFrame
    /\ memOps < MaxMemOps
    /\ memOps' = memOps + 1
    /\ IF i = 0
       THEN \* context.py:333-334
            /\ memories' = memories
            /\ memLast' = [op |-> "recall", key |-> key, max_age |-> max_age_seconds,
                           found |-> FALSE, expired |-> FALSE, entry |-> NoEntry,
                           evicted |-> <<>>, similar |-> <<>>]
       ELSE IF Expired(memories[i].created_at, clock, max_age_seconds)
       THEN \* context.py:340-342
            /\ memories' = RemoveAt(memories, i)
            /\ memLast' = [op |-> "recall", key |-> key, max_age |-> max_age_seconds,
                           found |-> FALSE, expired |-> TRUE, entry |-> NoEntry,
                           evicted |-> <<>>, similar |-> <<>>]
       ELSE \* context.py:345-348
            LET entry == [memories[i] EXCEPT !.access_count = @ + 1,
                                             !.last_accessed = clock]
            IN /\ memories' = [memories EXCEPT ![i] = entry]
               /\ memLast' = [op |-> "recall", key |-> key,
                              max_age |-> max_age_seconds, found |-> TRUE,
                              expired |-> FALSE, entry |-> entry, evicted |-> <<>>,
                              similar |-> <<>>]
    /\ UNCHANGED <<clock, memMaxSize, memPatterns>>

MemNext ==
    \/ \E in \in MemInputs : Store(in[1], in[1], "retrieve", in[2])
    \/ \E in \in MemInputs, a \in 0..MaxAgeSeconds : Recall(in[1], in[2], a)

\* (query, intent) arguments of the store calls that fill a memory for
\* find_similar
SimInputs ==
    << << <<"find", "all", "users">>, "retrieve" >>,
       << <<"Find", "users">>, "retrieve" >>,
       << <<"find", "users", "now">>, "retrieve" >>,
       << <<"users">>, "retrieve" >>,
       << <<"find">>, "retrieve" >>,
       << <<"find", "users", "find">>, "retrieve" >>,
       << <<"find", "users">>, "count" >>,
       << <<"find", "orders">>, "retrieve" >> >>

\* (query, intent) arguments of find_similar
SimQueries == { <<"find", "users">>, <<"Find", "all", "users">>, <<>> }
SimIntents == {"retrieve", "count"}
\* threshold arguments of find_similar, in tenths (the default is 0.8)
SimThresholds == {4, 8}

\* str.lower() of a word
Lower(word) == IF word = "Find" THEN "find" ELSE word

\* context.py:358, 365  set(query.lower().split())
WordSet(query) == { Lower(query[i]) : i \in 1..Len(query) }

\* context.py:366-367  overlap and union of the two word sets
Overlap(query, entry) == Cardinality(WordSet(query) \cap WordSet(entry.query))
Union(query, entry) == Cardinality(WordSet(query) \cup WordSet(entry.query))

\* mutant of IntentDiffers: entries of every intent are compared
IntentDiffers_Never(entry, intent) == FALSE

\* context.py:361  entry.intent != intent
IntentDiffers(entry, intent) == entry.intent # intent

\* context.py:360-372  the loop over self.memories.values(): an entry of the
\* intent is kept with its similarity overlap / union when that is at least
\* the threshold
RECURSIVE SimilarEntries(_, _, _, _)
SimilarEntries(mem, query, intent, tenths) ==
    IF mem = <<>> THEN <<>>
    ELSE LET entry == Head(mem)
             overlap == Overlap(query, entry)
             union == Union(query, entry)
         IN (IF /\ ~IntentDiffers(entry, intent)
                /\ union > 0
                /\ 10 * overlap >= tenths * union
             THEN << [entry |-> entry, overlap |-> overlap, union |-> union] >>
             ELSE <<>>)
            \o SimilarEntries(Tail(mem), query, intent, tenths)

\* a.overlap / a.union > b.overlap / b.union
MoreSimilar(a, b) == a.overlap * b.union > b.overlap * a.union

\* the pair sort(reverse=True) puts first: the greatest similarity, the
\* earliest in the list among equals (context.py:374)
MostSimilarIndex(similar) ==
    CHOOSE i \in 1..Len(similar) :
        \A j \in 1..Len(similar) :
            \/ MoreSimilar(similar[i], similar[j])
            \/ (~MoreSimilar(similar[j], similar[i]) /\ i <= j)

\* context.py:374  similar.sort(key=lambda x: x[1], reverse=True)
RECURSIVE SortBySimilarity(_)
SortBySimilarity(similar) ==
    IF similar = <<>> THEN <<>>
    ELSE LET i == MostSimilarIndex(similar)
         IN <<similar[i]>> \o
            SortBySimilarity(SubSeq(similar, 1, i - 1)
                             \o SubSeq(similar, i + 1, Len(similar)))

\* context.py:375  similar[:5]
SimilarLimit == 5

\* context.py:350-375  find_similar: what it returns
FindSimilarResult(mem, query, intent, tenths) ==
    LET sorted == SortBySimilarity(SimilarEntries(mem, query, intent, tenths))
    IN SubSeq(sorted, 1, IF Len(sorted) < SimilarLimit THEN Len(sorted)
                         ELSE SimilarLimit)

\* context.py:350-375  find_similar
FindSimilar(query, intent, tenths) ==
    /\ MemFrame
    /\ memLast' = [NoMemCall EXCEPT
                      !.op = "find_similar",
                      !.similar = [query |-> query, intent |-> intent,
                                   threshold |-> tenths,
                                   result |-> FindSimilarResult(memories, query,
                                                                intent, tenths)]]
    /\ UNCHANGED <<clock, memMaxSize, memories, memPatterns, memOps>>

SimNext ==
    \E q \in SimQueries, intent \in SimIntents, t \in SimThresholds :
        FindSimilar(q, intent, t)

\* the memory after store was called with the inputs at the chosen positions
\* of SimInputs, from the first on or from the last on
RECURSIVE StoreAll(_, _)
StoreAll(mem, inputs) ==
    IF inputs = <<>> THEN mem
    ELSE StoreAll(PutEntry(mem, MakeKey(Head(inputs)[1], "s1"), Head(inputs)[1],
                           Head(inputs)[2], 0),
                  Tail(inputs))

RECURSIVE SelectInputs(_, _, _)
SelectInputs(chosen, i, backwards) ==
    IF i > Len(SimInputs) THEN <<>>
    ELSE LET k == IF backwards THEN Len(SimInputs) + 1 - i ELSE i
         IN (IF k \in chosen THEN <<SimInputs[k]>> ELSE <<>>)
            \o SelectInputs(chosen, i + 1, backwards)

SimMemories ==
    { StoreAll(<<>>, SelectInputs(chosen, 1, backwards)) :
        chosen \in SUBSET (1..Len(SimInputs)), backwards \in BOOLEAN }

\* a QueryMemory that holds stored queries, before find_similar is called
SimInit ==
    /\ memMaxSize = Len(SimInputs)
    /\ memories \in SimMemories
    /\ memPatterns = <<>>
    /\ memOps = 0
    /\ memLast = NoMemCall

(***************************************************************************)
(* Callers of one ConversationContext (lumaai/promptql/context.py)          *)
(***************************************************************************)
\* the query argument of add_turn
CtxPrompts == {"p1"}
\* largest max_turns a ConversationContext is constructed with, scaled
MaxTurnsCap == 2
\* add_turn calls made in a run
MaxAddTurns == 5

NoResolve == [reference |-> "none", name |-> "None"]

CtxInit ==
    /\ \E m \in 0..MaxTurnsCap : convCtx = NewContext(1, m, "s1")
    /\ ctxAdded = 0
    /\ ctxIds = <<>>
    /\ ctxResolved = NoResolve

\* context.py:89-119  a caller invokes add_turn and gets the new QueryTurn
AddTurnCall(query, ents) ==
    /\ CtxFrame
    /\ ctxAdded < MaxAddTurns
    /\ ctxAdded' = ctxAdded + 1
    /\ convCtx' = AddTurn(convCtx, query, ents)
    /\ ctxIds' = Append(ctxIds, convCtx'.current_turn_id)
    /\ ctxResolved' = NoResolve
    /\ UNCHANGED clock

\* context.py:163-199  a caller invokes resolve_reference
ResolveCall(reference) ==
    /\ CtxFrame
    /\ ctxResolved' = [reference |-> reference,
                       name |-> ResolveReference(convCtx, reference)]
    /\ UNCHANGED <<clock, convCtx, ctxAdded, ctxIds>>

CtxNext ==
    \/ \E q \in CtxPrompts, e \in EntityInputs : AddTurnCall(q, e)
    \/ \E r \in References : ResolveCall(r)

(***************************************************************************)
(* ContextManager (lumaai/promptql/context.py)                              *)
(***************************************************************************)
\* ConversationContext objects created in a run
MaxContexts == 3
\* add_turn calls made through the manager in a run
MaxMgrTurns == 1
\* calls made on the manager and its contexts in a run
MaxMgrCalls == 4
\* ConversationContext.__init__: max_turns: int = 50
DefaultMaxTurns == 50

\* the session_id argument: a name, the empty string, or None
SessionArgs == {"s1", "", "None"}

\* context.py:84-87  _generate_session_id: md5 of the timestamp, one id per
\* object created at a distinct time
GeneratedId(n) == <<"generated", n>>

\* context.py:75  self.session_id = session_id or self._generate_session_id()
SessionIdOr(session_id, n) ==
    IF session_id = "None" \/ session_id = "" THEN GeneratedId(n) ELSE <<session_id>>

\* the key a caller's session_id is looked up under
SessionKey(session_id) == <<session_id>>

NoMgrCall == [op |-> "none", arg |-> "None", oid |-> 0]

MgrInit ==
    /\ mgrHeap = <<>>
    /\ mgrContexts = [k \in {} |-> 0]
    /\ mgrActive = <<"None">>
    /\ mgrCalls = 0
    /\ mgrLast = NoMgrCall

\* context.py:459-464  create_context: the effects on the manager
CreateEffects(session_id) ==
    LET oid == Len(mgrHeap) + 1
        ctx == NewContext(oid, DefaultMaxTurns, SessionIdOr(session_id, oid))
    IN
    /\ mgrHeap' = Append(mgrHeap, ctx)
    /\ mgrContexts' = [k \in (DOMAIN mgrContexts) \cup {ctx.session_id} |->
                          IF k = ctx.session_id THEN oid ELSE mgrContexts[k]]
    /\ mgrActive' = ctx.session_id

\* context.py:459-464  create_context
CreateContext(session_id) ==
    /\ MgrFrame
    /\ mgrCalls < MaxMgrCalls
    /\ Len(mgrHeap) < MaxContexts
    /\ CreateEffects(session_id)
    /\ mgrCalls' = mgrCalls + 1
    /\ mgrLast' = [op |-> "create", arg |-> session_id, oid |-> Len(mgrHeap) + 1]

\* context.py:470-474  get_or_create_context
GetOrCreateContext(session_id) ==
    /\ MgrFrame
    /\ mgrCalls < MaxMgrCalls
    /\ mgrCalls' = mgrCalls + 1
    /\ IF SessionKey(session_id) \notin DOMAIN mgrContexts
       THEN /\ Len(mgrHeap) < MaxContexts
            /\ CreateEffects(session_id)
            /\ mgrLast' = [op |-> "get_or_create", arg |-> session_id,
                           oid |-> Len(mgrHeap) + 1]
       ELSE /\ mgrLast' = [op |-> "get_or_create", arg |-> session_id,
                           oid |-> mgrContexts[SessionKey(session_id)]]
            /\ UNCHANGED <<mgrHeap, mgrContexts, mgrActive>>

\* context.py:482-487  switch_context
SwitchContext(session_id) ==
    /\ MgrFrame
    /\ mgrCalls < MaxMgrCalls
    /\ mgrCalls' = mgrCalls + 1
    /\ mgrActive' = IF SessionKey(session_id) \in DOMAIN mgrContexts
                    THEN SessionKey(session_id) ELSE mgrActive
    /\ mgrLast' = [op |-> "switch", arg |-> session_id, oid |-> 0]
    /\ UNCHANGED <<mgrHeap, mgrContexts>>

\* context.py:489-493  remove_context
RemoveContext(session_id) ==
    /\ MgrFrame
    /\ mgrCalls < MaxMgrCalls
    /\ mgrCalls' = mgrCalls + 1
    /\ mgrContexts' = [k \in (DOMAIN mgrContexts) \ {SessionKey(session_id)} |->
                          mgrContexts[k]]
    /\ mgrActive' = IF mgrActive = SessionKey(session_id) THEN <<"None">> ELSE mgrActive
    /\ mgrLast' = [op |-> "remove", arg |-> session_id, oid |-> 0]
    /\ UNCHANGED mgrHeap

\* total of add_turn calls made on the manager's contexts
RECURSIVE TurnsAdded(_)
TurnsAdded(heap) ==
    IF heap = <<>> THEN 0 ELSE Head(heap).current_turn_id + TurnsAdded(Tail(heap))

\* context.py:89-119  a caller adds a turn to a context the manager gave it
MgrAddTurn(oid, query, ents) ==
    /\ MgrFrame
    /\ mgrCalls < MaxMgrCalls
    /\ oid \in 1..Len(mgrHeap)
    /\ TurnsAdded(mgrHeap) < MaxMgrTurns
    /\ mgrHeap' = [mgrHeap EXCEPT ![oid] = AddTurn(@, query, ents)]
    /\ mgrCalls' = mgrCalls + 1
    /\ mgrLast' = [op |-> "add_turn", arg |-> "None", oid |-> oid]
    /\ UNCHANGED <<mgrContexts, mgrActive>>

MgrNext ==
    \/ \E sid \in SessionArgs : CreateContext(sid)
    \/ \E sid \in SessionArgs \ {"None"} : GetOrCreateContext(sid)
    \/ \E sid \in SessionArgs \ {"None"} : SwitchContext(sid)
    \/ \E sid \in SessionArgs \ {"None"} : RemoveContext(sid)
    \/ \E oid \in 1..MaxContexts, e \in EntityInputs : MgrAddTurn(oid, "p1", e)

(***************************************************************************)
(* QueryPlanner (lumaai/promptql/planner.py)                                *)
(***************************************************************************)
\* create_plan calls made in a run
MaxPlanCalls == 2
\* longest prompt, in words
MaxPromptWords == 3

\* a prompt is a sequence of lower-case words, put together from phrases
PromptVerbs == { <<"show">>, <<"count">>, <<"compare">>, <<"average">> }
PromptCollections == { <<"users">>, <<"user">>, <<>> }
PromptJoins == { <<"with", "orders">>, <<>> }
PromptFilters == { <<"where", "age", ">", "21">>, <<>> }
PromptGroups == { <<"per", "city">>, <<>> }
PromptSorts == { <<"top", "5">>, <<"top">>, <<"sort", "by", "age">>, <<>> }
PromptTimes == { <<"last", "week">>, <<>> }

\* "count users where age > 21"
ScenarioPrompt == <<"count", "users", "where", "age", ">", "21">>

PlanPrompts ==
    { p \in { v \o c \o j \o f \o g \o s \o t :
                v \in PromptVerbs, c \in PromptCollections, j \in PromptJoins,
                f \in PromptFilters, g \in PromptGroups, s \in PromptSorts,
                t \in PromptTimes } : Len(p) <= MaxPromptWords }
    \cup {ScenarioPrompt}

\* the schema argument: None, or a dict of collections and their fields
SchemaNone == [none |-> TRUE, collections |-> <<>>, fields |-> <<>>]
SchemaUsers == [none |-> FALSE, collections |-> <<"users">>,
                fields |-> << <<"age">> >>]
SchemaBoth == [none |-> FALSE, collections |-> <<"users", "orders">>,
               fields |-> << <<"age">>, <<"user_id">> >>]
PlanSchemas == {SchemaNone, SchemaUsers, SchemaBoth}

\* the words of the prompts and schemas of which one is a proper substring of
\* another
SubstringPairs ==
    { <<"user", "users">>, <<"order", "orders">>, <<"age", "average">> }

\* needle in prompt_lower, for a needle without spaces
Occurs(needle, prompt) ==
    \E i \in 1..Len(prompt) :
        prompt[i] = needle \/ <<needle, prompt[i]>> \in SubstringPairs

\* the words of phrase stand in the prompt from position i on
PhraseAt(prompt, i, phrase) ==
    /\ i + Len(phrase) - 1 <= Len(prompt)
    /\ \A k \in 1..Len(phrase) : prompt[i + k - 1] = phrase[k]

\* phrase in prompt_lower, or re.search of an alternative without \b
PhraseOccurs(phrase, prompt) ==
    IF Len(phrase) = 1 THEN Occurs(phrase[1], prompt)
    ELSE \E i \in 1..Len(prompt) : PhraseAt(prompt, i, phrase)

Words(set) == { <<w>> : w \in set }

\* a phrase of the set starts at position i of the prompt, and where it ends
PhraseEnds(prompt, i, phrases) ==
    { i + k - 1 : k \in { n \in 1..(Len(prompt) - i + 1) :
                             SubSeq(prompt, i, i + n - 1) \in phrases } }

\* re.search of \b(first)\b, or of \b(first)\b.*\b(then)\b when then is not empty
MatchesPattern(prompt, first, then) ==
    \E i \in 1..Len(prompt) : \E e \in PhraseEnds(prompt, i, first) :
        \/ then = {}
        \/ \E j \in (e + 1)..Len(prompt) : PhraseEnds(prompt, j, then) # {}

\* planner.py:98-133  INTENT_PATTERNS, in the dict's order
Intents ==
    <<"retrieve", "count", "aggregate", "compare", "trend", "group", "filter",
      "join", "sort">>

\* planner.py:98-133  the patterns of each intent: the alternatives of the first
\* group and, for a pattern with .* in it, of the second
IntentPatterns ==
    [retrieve |->
        << [first |-> Words({"show", "get", "find", "list", "display", "fetch",
                             "retrieve", "select"}), then |-> {}],
           [first |-> Words({"what", "which", "who"}), then |-> Words({"?"})] >>,
     count |->
        << [first |-> Words({"count", "total"})
                      \cup { <<"how", "many">>, <<"number", "of">> }, then |-> {}] >>,
     aggregate |->
        << [first |-> Words({"sum", "total", "average", "avg", "mean", "min", "max",
                             "median"}), then |-> {}],
           [first |-> Words({"aggregate", "summarize", "statistics"}), then |-> {}] >>,
     compare |->
        << [first |-> Words({"compare", "versus", "vs", "difference", "between"}),
            then |-> {}],
           [first |-> { <<"more", "than">>, <<"less", "than">>, <<"greater">>,
                        <<"smaller">> },
            then |-> Words({"average", "mean"})] >>,
     trend |->
        << [first |-> Words({"trend", "growth", "change", "progression"})
                      \cup { <<"over", "time">> }, then |-> {}],
           [first |-> Words({"daily", "weekly", "monthly", "yearly"}),
            then |-> Words({"pattern", "trend"})] >>,
     group |->
        << [first |-> Words({"grouped", "per", "breakdown"})
                      \cup { <<"group", "by">>, <<"by", "each">> }, then |-> {}],
           [first |-> Words({"categorize", "segment", "partition"}), then |-> {}] >>,
     filter |->
        << [first |-> Words({"where", "filter", "only", "just", "exclude", "except"}),
            then |-> {}],
           [first |-> Words({"last", "past", "recent", "since", "before", "after"}),
            then |-> {}] >>,
     join |->
        << [first |-> Words({"join", "combine", "merge", "with", "related",
                             "associated"}), then |-> {}],
           [first |-> Words({"including"})
                      \cup { <<"and", "their">>, <<"along", "with">> }, then |-> {}] >>,
     sort |->
        << [first |-> Words({"sort", "order", "rank", "top", "bottom", "highest",
                             "lowest"}), then |-> {}] >>]

\* planner.py:279-284  any(re.search(p, prompt) for p in patterns)
IntentMatches(intent, prompt) ==
    \E n \in 1..Len(IntentPatterns[intent]) :
        MatchesPattern(prompt, IntentPatterns[intent][n].first,
                       IntentPatterns[intent][n].then)

\* planner.py:274-289  _detect_intents
DetectIntents(prompt) ==
    LET detected == { Intents[i] : i \in { k \in 1..Len(Intents) :
                                            IntentMatches(Intents[k], prompt) } }
    IN IF detected = {} THEN {"retrieve"} ELSE detected

\* planner.py:313  collection.lower().rstrip("s")
RStripS(name) ==
    CASE name = "users" -> "user"
      [] name = "orders" -> "order"
      [] OTHER -> name

\* planner.py:309-314  a collection is appended once when its name is in the
\* prompt and once more when its name without trailing "s" is
RECURSIVE MatchCollections(_, _)
MatchCollections(names, prompt) ==
    IF names = <<>> THEN <<>>
    ELSE (IF Occurs(Head(names), prompt) THEN <<Head(names)>> ELSE <<>>)
         \o (IF Occurs(RStripS(Head(names)), prompt) THEN <<Head(names)>> ELSE <<>>)
         \o MatchCollections(Tail(names), prompt)

\* the fields of all collections, in the schema's order
RECURSIVE FlatFields(_)
FlatFields(fields) ==
    IF fields = <<>> THEN <<>> ELSE Head(fields) \o FlatFields(Tail(fields))

\* planner.py:316-320  the fields whose name is in the prompt
RECURSIVE MatchFields(_, _)
MatchFields(fields, prompt) ==
    IF fields = <<>> THEN <<>>
    ELSE (IF Occurs(Head(fields), prompt) THEN <<Head(fields)>> ELSE <<>>)
         \o MatchFields(Tail(fields), prompt)

\* planner.py:323-331  operator_patterns
OperatorPatterns ==
    << [alts |-> { <<"greater", "than">>, <<"more", "than">>, <<">">>, <<"above">> },
        op |-> ">"],
       [alts |-> { <<"less", "than">>, <<"fewer", "than">>, <<"<">>, <<"below">> },
        op |-> "<"],
       [alts |-> { <<"equal">>, <<"is">>, <<"=">>, <<"same", "as">> }, op |-> "="],
       [alts |-> { <<"not", "equal">>, <<"!=">>, <<"different", "from">> }, op |-> "!="],
       [alts |-> { <<"contains">>, <<"includes">>, <<"like">> }, op |-> "LIKE"],
       [alts |-> { <<"between">> }, op |-> "BETWEEN"],
       [alts |-> { <<"in">>, <<"one", "of">> }, op |-> "IN"] >>

\* planner.py:333-335  the operators whose pattern is found, in pattern order
RECURSIVE MatchOperators(_, _)
MatchOperators(patterns, prompt) ==
    IF patterns = <<>> THEN <<>>
    ELSE (IF \E a \in Head(patterns).alts : PhraseOccurs(a, prompt)
          THEN <<Head(patterns).op>> ELSE <<>>)
         \o MatchOperators(Tail(patterns), prompt)

\* the words that are numbers
Numerals == {"21", "5"}

\* int(word) of a numeral
NumeralValue(word) == IF word = "21" THEN 21 ELSE 5

\* planner.py:337-344  quoted values (there are none) and then the numbers
RECURSIVE ExtractValues(_)
ExtractValues(prompt) ==
    IF prompt = <<>> THEN <<>>
    ELSE (IF Head(prompt) \in Numerals THEN <<Head(prompt)>> ELSE <<>>)
         \o ExtractValues(Tail(prompt))

\* planner.py:291-348  _extract_entities
ExtractEntities(prompt, schema) ==
    IF schema.none
    THEN [collections |-> <<>>, fields |-> <<>>, values |-> <<>>, operators |-> <<>>]
    ELSE [collections |-> MatchCollections(schema.collections, prompt),
          fields |-> MatchFields(FlatFields(schema.fields), prompt),
          values |-> ExtractValues(prompt),
          operators |-> MatchOperators(OperatorPatterns, prompt)]

\* planner.py:136-148  TIME_PATTERNS, in the dict's order
TimePatterns ==
    << <<"today">>, <<"yesterday">>, <<"this", "week">>, <<"last", "week">>,
       <<"this", "month">>, <<"last", "month">>, <<"this", "year">>,
       <<"last", "year">>, <<"last", "7", "days">>, <<"last", "30", "days">>,
       <<"last", "90", "days">> >>

\* planner.py:350-364  _extract_time_constraints: the first phrase found, <<>>
\* for None (no word of the prompts is a date)
ExtractTimeConstraints(prompt) ==
    IF \E i \in 1..Len(TimePatterns) : PhraseOccurs(TimePatterns[i], prompt)
    THEN TimePatterns[CHOOSE i \in 1..Len(TimePatterns) :
                         /\ PhraseOccurs(TimePatterns[i], prompt)
                         /\ \A k \in 1..(i - 1) : ~PhraseOccurs(TimePatterns[k], prompt)]
    ELSE <<>>

\* planner.py:513-526  _infer_collection (no collection name holds a "_")
InferCollection(prompt, schema) ==
    IF schema.none THEN "default"
    ELSE IF \E i \in 1..Len(schema.collections) : Occurs(schema.collections[i], prompt)
    THEN schema.collections[CHOOSE i \in 1..Len(schema.collections) :
             /\ Occurs(schema.collections[i], prompt)
             /\ \A k \in 1..(i - 1) : ~Occurs(schema.collections[k], prompt)]
    ELSE IF schema.collections # <<>> THEN schema.collections[1]
    ELSE "default"

\* planner.py:529-551  _build_filter_conditions, from the i-th field on
RECURSIVE FilterConditions(_, _)
FilterConditions(entities, i) ==
    IF i > Len(entities.fields) THEN <<>>
    ELSE (IF i <= Len(entities.values)
          THEN << [field |-> entities.fields[i],
                   operator |-> IF i <= Len(entities.operators)
                                THEN entities.operators[i] ELSE "=",
                   value |-> entities.values[i]] >>
          ELSE <<>>)
         \o FilterConditions(entities, i + 1)

\* planner.py:553-572  _detect_aggregation: the first pattern found, else count
DetectAggregation(prompt) ==
    IF MatchesPattern(prompt, Words({"count"}) \cup { <<"how", "many">> }, {})
    THEN "count"
    ELSE IF MatchesPattern(prompt, Words({"sum", "total"}), {}) THEN "sum"
    ELSE IF MatchesPattern(prompt, Words({"average", "avg", "mean"}), {}) THEN "avg"
    ELSE IF MatchesPattern(prompt, Words({"min", "minimum", "lowest"}), {}) THEN "min"
    ELSE IF MatchesPattern(prompt, Words({"max", "maximum", "highest"}), {}) THEN "max"
    ELSE IF MatchesPattern(prompt, Words({"median"}), {}) THEN "median"
    ELSE IF MatchesPattern(prompt, Words({"std"}) \cup { <<"standard", "deviation">> }, {})
    THEN "stddev"
    ELSE IF MatchesPattern(prompt, Words({"distinct", "unique"}), {}) THEN "distinct"
    ELSE "count"

\* the words \w+ matches whole
WordTokens(prompt) == { i \in 1..Len(prompt) : prompt[i] # ">" }

\* re.search(r'\bby\s+(\w+)'): the word after the first "by", "None" if none
WordAfterBy(prompt) ==
    LET at == { i \in 1..(Len(prompt) - 1) :
                    prompt[i] = "by" /\ (i + 1) \in WordTokens(prompt) }
    IN IF at = {} THEN "None"
       ELSE prompt[(CHOOSE i \in at : \A k \in at : i <= k) + 1]

\* planner.py:574-583  _extract_group_fields
ExtractGroupFields(prompt, entities) ==
    IF WordAfterBy(prompt) # "None" THEN <<WordAfterBy(prompt)>>
    ELSE IF entities.fields # <<>> THEN <<entities.fields[1]>>
    ELSE <<"id">>

\* planner.py:585-601  _extract_sort_info
ExtractSortInfo(prompt) ==
    [field |-> IF WordAfterBy(prompt) # "None" THEN WordAfterBy(prompt)
               ELSE "created_at",
     order |-> IF \E w \in {"top", "highest", "most", "desc"} : Occurs(w, prompt)
               THEN "DESC"
               ELSE IF \E w \in {"bottom", "lowest", "least", "asc"} : Occurs(w, prompt)
               THEN "ASC"
               ELSE "DESC"]

\* planner.py:603-616  _extract_limit, 0 for None
ExtractLimit(prompt) ==
    LET at == { i \in 1..(Len(prompt) - 1) :
                    /\ prompt[i] \in {"top", "first", "limit"}
                    /\ prompt[i + 1] \in Numerals }
        numbers == ExtractValues(prompt)
    IN IF at # {}
       THEN NumeralValue(prompt[(CHOOSE i \in at : \A k \in at : i <= k) + 1])
       ELSE IF (Occurs("top", prompt) \/ Occurs("first", prompt)) /\ numbers # <<>>
       THEN NumeralValue(numbers[1])
       ELSE 0

\* mutant of EstimateStepCost: every step costs 1.0
EstimateStepCost_Flat(step_type) == 10

\* planner.py:497-511  _estimate_step_cost, in tenths
EstimateStepCost(step_type) ==
    CASE step_type = "FETCH" -> 10
      [] step_type = "FILTER" -> 5
      [] step_type = "JOIN" -> 30
      [] step_type = "AGGREGATE" -> 15
      [] step_type = "SORT" -> 10
      [] step_type = "LIMIT" -> 1
      [] step_type = "TRANSFORM" -> 5
      [] step_type = "COMPUTE" -> 10
      [] step_type = "COMPARE" -> 20
      [] step_type = "SUBQUERY" -> 20
      [] OTHER -> 10

\* planner.py:489  id=f"step_{self._step_counter}": the number stands for the id
StepId(counter) == counter

\* planner.py:479-495  _create_step: the counter goes up and the step is made;
\* acc holds the steps made so far and self._step_counter
CreateStep(acc, step_type, collection, params, dependencies) ==
    LET counter == acc.counter + 1
    IN [steps |-> Append(acc.steps,
                         [id |-> StepId(counter), type |-> step_type,
                          collection |-> collection, params |-> params,
                          dependencies |-> dependencies,
                          estimated_cost |-> EstimateStepCost(step_type)]),
        counter |-> counter]

\* mutant of LastStepId: every later step depends on the first step
LastStepId_First(acc) == acc.steps[1].id

\* steps[-1].id
LastStepId(acc) == acc.steps[Len(acc.steps)].id

\* planner.py:412-421  one JOIN step per further entry of collections
RECURSIVE JoinSteps(_, _)
JoinSteps(acc, secondaries) ==
    IF secondaries = <<>> THEN acc
    ELSE JoinSteps(CreateStep(acc, "JOIN", Head(secondaries), <<"inner">>,
                              <<LastStepId(acc)>>),
                   Tail(secondaries))

\* one optional stage of _build_steps: when asked for, a step that depends on
\* the last step built so far
StepIf(wanted, acc, type, collection, params) ==
    IF wanted
    THEN CreateStep(acc, type, collection, params, <<LastStepId(acc)>>)
    ELSE acc

\* planner.py:410-423  the join stage: one step per secondary collection
JoinIf(wanted, acc, collections) ==
    IF wanted THEN JoinSteps(acc, Tail(collections)) ELSE acc

\* planner.py:366-477  _build_steps
BuildSteps(counter, prompt, intents, entities, time_constraints, schema) ==
    LET collections == entities.collections
        primary == IF collections # <<>> THEN collections[1]
                   ELSE InferCollection(prompt, schema)
        conditions == FilterConditions(entities, 1)
        limit == ExtractLimit(prompt)
    IN StepIf(limit # 0,
        StepIf("sort" \in intents,
         StepIf("compare" \in intents,
          StepIf("aggregate" \in intents \/ "count" \in intents,
           StepIf("group" \in intents,
            JoinIf("join" \in intents /\ Len(collections) > 1,
             StepIf("filter" \in intents /\ conditions # <<>>,
              StepIf(time_constraints # <<>>,
               CreateStep([steps |-> <<>>, counter |-> counter],
                          "FETCH", primary, <<>>, <<>>),
               "FILTER", primary, <<"time", time_constraints>>),
              "FILTER", "None", <<"conditions", conditions>>),
             collections),
            "AGGREGATE", "None", <<"group_by", ExtractGroupFields(prompt, entities)>>),
           "AGGREGATE", "None", <<"function", DetectAggregation(prompt)>>),
          "COMPARE", "None", <<"diff">>),
         "SORT", "None", <<"sort", ExtractSortInfo(prompt)>>),
        "LIMIT", "None", <<"limit", limit>>)

\* planner.py:618-633  _requires_reasoning
RequiresReasoning(intents, steps) ==
    \/ intents \cap {"compare", "trend", "join"} # {}
    \/ Len(steps) > 5
    \/ \E i \in 1..Len(steps) : steps[i].type = "SUBQUERY"

\* planner.py:635-647  _can_parallelize: two steps have the same dependencies
\* (a step has at most one, so the sorted list is the list)
CanParallelize(steps) ==
    \E i, j \in 1..Len(steps) :
        i # j /\ steps[i].dependencies = steps[j].dependencies

\* planner.py:199  sum(s.estimated_cost for s in steps)
RECURSIVE SumCosts(_)
SumCosts(steps) ==
    IF steps = <<>> THEN 0 ELSE Head(steps).estimated_cost + SumCosts(Tail(steps))

\* planner.py:202-206  the collection parameters of the steps
TargetCollections(steps) ==
    { steps[i].collection : i \in { k \in 1..Len(steps) :
                                       steps[k].collection \notin {"None", ""} } }

\* mutant of ResetCounter: create_plan goes on counting where the last plan ended
ResetCounter_Kept(counter) == counter

\* planner.py:173  self._step_counter = 0
ResetCounter(counter) == 0

NoPlan == [query |-> <<>>, schema |-> SchemaNone, intents |-> {}, steps |-> <<>>,
           requires_reasoning |-> FALSE, can_parallelize |-> FALSE,
           estimated_cost |-> 0, target_collections |-> {}]

PlanInit ==
    /\ planCounter = 0
    /\ planCalls = 0
    /\ planLast = NoPlan

\* planner.py:173-216  the plan create_plan builds when self._step_counter is
\* counter, and the counter it leaves
MakePlan(counter, prompt, schema) ==
    LET intents == DetectIntents(prompt)
        entities == ExtractEntities(prompt, schema)
        built == BuildSteps(ResetCounter(counter), prompt, intents, entities,
                            ExtractTimeConstraints(prompt), schema)
    IN [counter |-> built.counter,
        plan |-> [query |-> prompt, schema |-> schema, intents |-> intents,
                  steps |-> built.steps,
                  requires_reasoning |-> RequiresReasoning(intents, built.steps),
                  can_parallelize |-> CanParallelize(built.steps),
                  estimated_cost |-> SumCosts(built.steps),
                  target_collections |-> TargetCollections(built.steps)]]

\* planner.py:154-216  create_plan (it has no await: the call is one step)
CreatePlan(prompt, schema) ==
    /\ PlanFrame
    /\ planCalls < MaxPlanCalls
    /\ planCalls' = planCalls + 1
    /\ \E made \in {MakePlan(planCounter, prompt, schema)} :
          /\ planCounter' = made.counter
          /\ planLast' = made.plan

PlanNext ==
    \E p \in PlanPrompts, sc \in PlanSchemas : CreatePlan(p, sc)

(***************************************************************************)
(* The data operators of QueryExecutor (tdbai/promptql/executor.py)         *)
(***************************************************************************)
\* longest relation handed to an operator
MaxRows == 3

\* None
Null == 0 - 1

\* record.get(field)
Get(record, field) == IF field \in DOMAIN record THEN record[field] ELSE Null

\* the relations handed to sort and aggregate: row i carries id = i, a value
\* or None under k and under g
KeyValues == {Null, 1, 2}
GroupValues == {Null, 1}
OperatorRelations ==
    UNION { [1..n -> KeyValues \X GroupValues] : n \in 0..MaxRows }
Relation(kg) == [i \in 1..Len(kg) |-> [id |-> i, k |-> kg[i][1], g |-> kg[i][2]]]

NoOpCall == [op |-> "none", fields |-> <<>>, order |-> "", function |-> "",
             field |-> "None", join_type |-> "",
             on |-> [left |-> "", right |-> ""], max_rows |-> 0,
             result |-> <<>>, scalar |-> <<>>, truncated |-> FALSE,
             total_rows |-> 0, row_count |-> 0]

\* the fields and order arguments of sort
SortFields == { <<>>, <<"k">>, <<"k", "g">>, <<"g", "k">> }
SortOrders == {"asc", "desc", "DESC"}

\* order.lower()
OrderLower(order) == IF order = "DESC" THEN "desc" ELSE order

\* executor.py:370-379  sort_key: per field (1, None) for None, else (0, val)
SortKey(record, fields) ==
    [n \in 1..Len(fields) |->
        IF Get(record, fields[n]) = Null THEN <<1, Null>>
        ELSE <<0, Get(record, fields[n])>>]

\* a < b for two sort keys: lists of pairs compare item by item
KeyLess(a, b) ==
    \E n \in 1..Len(a) :
        /\ \A m \in 1..(n - 1) : a[m] = b[m]
        /\ \/ a[n][1] < b[n][1]
           \/ (a[n][1] = b[n][1] /\ a[n][2] < b[n][2])

\* the record sorted() puts first: with reverse the greatest key, else the
\* smallest, and the earliest in the input among equals (executor.py:381)
FirstInOrder(data, fields, reverse) ==
    CHOOSE i \in 1..Len(data) :
        \A j \in 1..Len(data) :
            LET ki == SortKey(data[i], fields)
                kj == SortKey(data[j], fields)
            IN \/ (IF reverse THEN KeyLess(kj, ki) ELSE KeyLess(ki, kj))
               \/ (ki = kj /\ i <= j)

\* executor.py:381  sorted(data, key=sort_key, reverse=reverse)
RECURSIVE Sorted(_, _, _)
Sorted(data, fields, reverse) ==
    IF data = <<>> THEN <<>>
    ELSE LET i == FirstInOrder(data, fields, reverse)
         IN <<data[i]>> \o
            Sorted(SubSeq(data, 1, i - 1) \o SubSeq(data, i + 1, Len(data)),
                   fields, reverse)

\* executor.py:358-381  _execute_sort
ExecuteSort(data, fields, order) ==
    IF data = <<>> \/ fields = <<>> THEN data
    ELSE Sorted(data, fields, OrderLower(order) = "desc")

OpInit ==
    /\ opData = <<>>
    /\ opRight = <<>>
    /\ opCount = 0
    /\ opPrev = NoOpCall
    /\ opLast = NoOpCall

\* executor.py:194-197  a sort step: data = self._execute_sort(data, fields, order)
SortCall(fields, order) ==
    /\ OpFrame
    /\ opCount = 0
    /\ opCount' = 1
    /\ opPrev' = opLast
    /\ opLast' = [NoOpCall EXCEPT !.op = "sort", !.fields = fields,
                                  !.order = order,
                                  !.result = ExecuteSort(opData, fields, order)]
    /\ UNCHANGED <<clock, opData, opRight>>

SortNext ==
    \E fields \in SortFields, order \in SortOrders : SortCall(fields, order)

\* aggregate calls made on one unchanged relation
MaxAggregateCalls == 2

\* the function and field arguments of aggregate ("None": None)
AggregateFunctions ==
    {"count", "sum", "avg", "min", "max", "first", "last", "median"}
AggregateFields == {"None", "", "k", "g"}

\* what an aggregate returns: <<>> for None, else the number num / den as
\* <<num, den>>
NoScalar == <<>>
Number(n) == <<n, 1>>

\* executor.py:449  the values of the field that are not None, in input order
RECURSIVE NonNullValues(_, _)
NonNullValues(records, field_name) ==
    IF records = <<>> THEN <<>>
    ELSE (IF Get(Head(records), field_name) # Null
          THEN <<Get(Head(records), field_name)>> ELSE <<>>)
         \o NonNullValues(Tail(records), field_name)

RECURSIVE SumValues(_)
SumValues(values) ==
    IF values = <<>> THEN 0 ELSE Head(values) + SumValues(Tail(values))

MinValue(values) ==
    CHOOSE v \in { values[i] : i \in 1..Len(values) } :
        \A i \in 1..Len(values) : v <= values[i]

MaxValue(values) ==
    CHOOSE v \in { values[i] : i \in 1..Len(values) } :
        \A i \in 1..Len(values) : v >= values[i]

\* if field_name: None and "" are not a field
FieldGiven(field_name) == field_name \notin {"None", ""}

\* executor.py:434-467  _apply_aggregate
ApplyAggregate(records, function, field_name) ==
    LET values == NonNullValues(records, field_name)
    IN IF function = "count"
       THEN IF FieldGiven(field_name) THEN Number(Len(values))
            ELSE Number(Len(records))
       ELSE IF ~FieldGiven(field_name) THEN NoScalar
       ELSE IF values = <<>> THEN NoScalar
       ELSE CASE function = "sum" -> Number(SumValues(values))
              [] function = "avg" -> <<SumValues(values), Len(values)>>
              [] function = "min" -> Number(MinValue(values))
              [] function = "max" -> Number(MaxValue(values))
              [] function = "first" -> Number(values[1])
              [] function = "last" -> Number(values[Len(values)])
              [] OTHER -> NoScalar

\* executor.py:422-432  _execute_aggregate
ExecuteAggregate(data, function, field_name) ==
    IF data = <<>> THEN NoScalar
    ELSE ApplyAggregate(data, function, field_name)

\* executor.py:204-207  an aggregate step
AggregateCall(function, field_name) ==
    /\ OpFrame
    /\ opCount = 0
    /\ opCount' = 1
    /\ opPrev' = opLast
    /\ opLast' = [NoOpCall EXCEPT
                     !.op = "aggregate", !.function = function,
                     !.field = field_name,
                     !.scalar = ExecuteAggregate(opData, function, field_name)]
    /\ UNCHANGED <<clock, opData, opRight>>

\* executor.py:204-207  the same aggregate is applied to the unchanged relation
\* once more
AggregateAgain ==
    /\ OpFrame
    /\ opLast.op = "aggregate"
    /\ opCount < MaxAggregateCalls
    /\ opCount' = opCount + 1
    /\ opPrev' = opLast
    /\ opLast' = [opLast EXCEPT
                     !.scalar = ExecuteAggregate(opData, opLast.function,
                                                 opLast.field)]
    /\ UNCHANGED <<clock, opData, opRight>>

AggregateNext ==
    \/ \E function \in AggregateFunctions, field_name \in AggregateFields :
          AggregateCall(function, field_name)
    \/ AggregateAgain

\* the left relations of a join: row i carries id = i, a value or None under
\* k, and side = 1
LeftRelations == UNION { [1..n -> KeyValues] : n \in 0..MaxRows }
LeftRelation(ks) == [i \in 1..Len(ks) |-> [id |-> i, k |-> ks[i], side |-> 1]]

\* the rows the scan of the right collection returns: none as _execute_scan
\* stands (executor.py:240-247), the rows of the collection once it reads the
\* database client; row j carries rid = j, a value or None under rk, and
\* side = 2
ScanResults ==
    { [j \in 1..Len(ks) |-> [rid |-> j, rk |-> ks[j], side |-> 2]] :
        ks \in UNION { [1..n -> KeyValues] : n \in 0..MaxRows } }

\* the on and type arguments of join
JoinOns == { [left |-> "k", right |-> "rk"], [left |-> "k", right |-> "k"] }
JoinTypes == {"inner", "left", "outer"}

\* executor.py:517  {**left_record, **right_record}
Merged(left_record, right_record) ==
    [f \in (DOMAIN left_record) \cup (DOMAIN right_record) |->
        IF f \in DOMAIN right_record THEN right_record[f] ELSE left_record[f]]

\* executor.py:503-508, 513  right_index.get(left_key, []): the right records
\* with the key, in the order of right_data
RECURSIVE RightMatches(_, _, _)
RightMatches(right_data, right_field, left_key) ==
    IF right_data = <<>> THEN <<>>
    ELSE (IF Get(Head(right_data), right_field) = left_key
          THEN <<Head(right_data)>> ELSE <<>>)
         \o RightMatches(Tail(right_data), right_field, left_key)

\* mutant of JoinUnmatched: a left join drops the left record without a match
JoinUnmatched_Dropped(left_record, join_type) == <<>>

\* executor.py:519-520  elif join_type == "left": result.append(left_record)
JoinUnmatched(left_record, join_type) ==
    IF join_type = "left" THEN <<left_record>> ELSE <<>>

\* executor.py:510-520  the loop over left_data
RECURSIVE JoinRows(_, _, _, _)
JoinRows(left_data, right_data, on, join_type) ==
    IF left_data = <<>> THEN <<>>
    ELSE LET left_record == Head(left_data)
             right_matches == RightMatches(right_data, on.right,
                                           Get(left_record, on.left))
         IN (IF right_matches # <<>>
             THEN [n \in 1..Len(right_matches) |->
                      Merged(left_record, right_matches[n])]
             ELSE JoinUnmatched(left_record, join_type))
            \o JoinRows(Tail(left_data), right_data, on, join_type)

\* executor.py:481-522  _execute_join, right_data being what the scan returned
ExecuteJoin(left_data, right_data, on, join_type) ==
    IF left_data = <<>> THEN <<>>
    ELSE IF right_data = <<>>
    THEN IF join_type = "inner" THEN <<>> ELSE left_data
    ELSE JoinRows(left_data, right_data, on, join_type)

\* executor.py:214-218  a join step
JoinCall(on, join_type) ==
    /\ OpFrame
    /\ opCount = 0
    /\ opCount' = 1
    /\ opPrev' = opLast
    /\ opLast' = [NoOpCall EXCEPT
                     !.op = "join", !.join_type = join_type, !.on = on,
                     !.result = ExecuteJoin(opData, opRight, on, join_type)]
    /\ UNCHANGED <<clock, opData, opRight>>

JoinNext ==
    \E on \in JoinOns, join_type \in JoinTypes : JoinCall(on, join_type)

\* largest context.max_rows
MaxRowCap == 2

\* executor.py:229-233  the row cap at the end of _execute_plan: the data
\* returned and state.metadata
ApplyRowCap(data, max_rows) ==
    IF Len(data) > max_rows
    THEN [data |-> SubSeq(data, 1, max_rows), truncated |-> TRUE,
          total_rows |-> Len(SubSeq(data, 1, max_rows))]
    ELSE [data |-> data, truncated |-> FALSE, total_rows |-> 0]

\* mutant of RowCount: the rows before the cap are counted
RowCount_Uncapped(data, capped) == Len(data)

\* executor.py:118  row_count=len(result) if isinstance(result, list) else 1
RowCount(data, capped) == Len(capped)

\* executor.py:229-238, 115-122  the last part of _execute_plan, and the
\* ExecutionResult execute makes of what it returned; the working relation is
\* a list
RowCapCall(max_rows) ==
    LET capped == ApplyRowCap(opData, max_rows)
    IN
    /\ OpFrame
    /\ opCount = 0
    /\ opCount' = 1
    /\ opPrev' = opLast
    /\ opLast' = [NoOpCall EXCEPT
                     !.op = "execute", !.max_rows = max_rows,
                     !.result = capped.data,
                     !.truncated = capped.truncated,
                     !.total_rows = capped.total_rows,
                     !.row_count = RowCount(opData, capped.data)]
    /\ UNCHANGED <<clock, opData, opRight>>

RowCapNext ==
    \E max_rows \in 0..MaxRowCap : RowCapCall(max_rows)

(***************************************************************************)
(* SchemaInference and RelationshipDetector (tdbai/promptql/schema.py)      *)
(* A name is the sequence of its characters, so that the regular            *)
(* expressions, lower(), replace() and endswith() of the code are computed  *)
(* on the characters they read.                                             *)
(***************************************************************************)
\* the collections whose samples are inferred
SchemaCollections == {<<"u", "s", "e", "r", "s">>, <<"o", "r", "d", "e", "r", "s">>}
\* the keys of the sample records
SampleFieldNames == {<<"i", "d">>, <<"u", "s", "e", "r", "_", "i", "d">>, <<"t", "o", "t", "a", "l">>}
\* the values of one key over the records of a sample: distinct, repeated, one missing
SampleColumns == {<<1, 2>>, <<1, 1>>, <<1, Null>>}
\* the key lists of the records of a sample: one key, or two different keys
SampleKeyLists ==
    {<<f>> : f \in SampleFieldNames}
        \cup {<<f, g>> : <<f, g>> \in {p \in SampleFieldNames \X SampleFieldNames : p[1] # p[2]}}
\* the records keys and columns make: record i holds the i-th value of every column
SampleOf(keys, columns) ==
    [i \in 1..Len(columns[1]) |-> [j \in 1..Len(keys) |-> [key |-> keys[j], value |-> columns[j][i]]]]
\* the samples handed to infer: no record at all, or the records of one or two columns
SampleData ==
    {<<>>} \cup
    {SampleOf(keys, [j \in 1..Len(keys) |-> in[j]]) :
        keys \in SampleKeyLists, in \in SampleColumns \X SampleColumns}

\* str.lower() on the letters the names are written with
LowerChar(c) ==
    CASE c = "I" -> "i"
      [] c = "U" -> "u"
      [] OTHER -> c

NameLower(name) == [i \in 1..Len(name) |-> LowerChar(name[i])]

\* name.startswith(part), name.endswith(part), part in name
StartsWith(name, part) ==
    Len(part) <= Len(name) /\ SubSeq(name, 1, Len(part)) = part

EndsWith(name, part) ==
    Len(part) <= Len(name) /\ SubSeq(name, Len(name) - Len(part) + 1, Len(name)) = part

Contains(name, part) ==
    \E i \in 1..(Len(name) - Len(part) + 1) : SubSeq(name, i, i + Len(part) - 1) = part

\* a pattern of the tables below: what is required of the name from its
\* start ("is": the whole name, "ends": .* then the text up to the end,
\* "starts": the text, then anything)
Pattern(kind, text) == [kind |-> kind, text |-> text]

PatternHolds(p, name) ==
    CASE p.kind = "is" -> name = p.text
      [] p.kind = "ends" -> EndsWith(name, p.text)
      [] p.kind = "starts" -> StartsWith(name, p.text)

\* ID_PATTERNS under re.match: "_id$" is tried from the start of the name,
\* so it holds of the name "_id" alone
ID_PATTERNS ==
    <<Pattern("is", <<"i", "d">>), Pattern("is", <<"_", "i", "d">>), Pattern("ends", <<"_", "i", "d">>),
      Pattern("is", <<"u", "u", "i", "d">>), Pattern("is", <<"g", "u", "i", "d">>), Pattern("is", <<"p", "k">>),
      Pattern("is", <<"k", "e", "y">>), Pattern("ends", <<"_", "k", "e", "y">>)>>

\* NAME_PATTERNS under re.match; "first_?name" is written out as its two names
NAME_PATTERNS ==
    <<Pattern("is", <<"n", "a", "m", "e">>), Pattern("is", <<"_", "n", "a", "m", "e">>), Pattern("ends", <<"_", "n", "a", "m", "e">>),
      Pattern("is", <<"t", "i", "t", "l", "e">>),
      Pattern("is", <<"f", "i", "r", "s", "t", "n", "a", "m", "e">>), Pattern("is", <<"f", "i", "r", "s", "t", "_", "n", "a", "m", "e">>),
      Pattern("is", <<"l", "a", "s", "t", "n", "a", "m", "e">>), Pattern("is", <<"l", "a", "s", "t", "_", "n", "a", "m", "e">>),
      Pattern("is", <<"f", "u", "l", "l", "n", "a", "m", "e">>), Pattern("is", <<"f", "u", "l", "l", "_", "n", "a", "m", "e">>)>>

\* TIMESTAMP_PATTERNS under re.search
TIMESTAMP_PATTERNS ==
    <<Pattern("starts", <<"c", "r", "e", "a", "t", "e", "d">>), Pattern("starts", <<"u", "p", "d", "a", "t", "e", "d">>),
      Pattern("starts", <<"m", "o", "d", "i", "f", "i", "e", "d">>), Pattern("starts", <<"d", "e", "l", "e", "t", "e", "d">>),
      Pattern("ends", <<"_", "a", "t">>), Pattern("ends", <<"_", "t", "i", "m", "e">>), Pattern("ends", <<"_", "d", "a", "t", "e">>),
      Pattern("starts", <<"t", "i", "m", "e", "s", "t", "a", "m", "p">>)>>

AnyPattern(patterns, name) ==
    \E i \in 1..Len(patterns) : PatternHolds(patterns[i], name)

\* the field name hints, in the order _detect_semantic_type tries them
NameHints ==
    <<[semantic_type |-> "STATUS", words |-> {<<"s", "t", "a", "t", "u", "s">>, <<"s", "t", "a", "t", "e">>}],
      [semantic_type |-> "TYPE", words |-> {<<"t", "y", "p", "e">>, <<"c", "a", "t", "e", "g", "o", "r", "y">>, <<"k", "i", "n", "d">>}],
      [semantic_type |-> "AMOUNT", words |-> {<<"a", "m", "o", "u", "n", "t">>, <<"p", "r", "i", "c", "e">>, <<"c", "o", "s", "t">>, <<"t", "o", "t", "a", "l">>, <<"f", "e", "e">>}],
      [semantic_type |-> "COUNT", words |-> {<<"c", "o", "u", "n", "t">>, <<"n", "u", "m">>, <<"q", "u", "a", "n", "t", "i", "t", "y">>, <<"q", "t", "y">>}],
      [semantic_type |-> "PERCENTAGE", words |-> {<<"p", "e", "r", "c", "e", "n", "t">>, <<"r", "a", "t", "i", "o">>, <<"r", "a", "t", "e">>}],
      [semantic_type |-> "SCORE", words |-> {<<"s", "c", "o", "r", "e">>, <<"r", "a", "t", "i", "n", "g">>, <<"r", "a", "n", "k">>}],
      [semantic_type |-> "DESCRIPTION", words |-> {<<"d", "e", "s", "c", "r", "i", "p", "t", "i", "o", "n">>, <<"d", "e", "s", "c">>, <<"c", "o", "m", "m", "e", "n", "t">>, <<"n", "o", "t", "e">>}],
      [semantic_type |-> "ADDRESS", words |-> {<<"a", "d", "d", "r", "e", "s", "s">>, <<"s", "t", "r", "e", "e", "t">>, <<"c", "i", "t", "y">>, <<"z", "i", "p">>}],
      [semantic_type |-> "COORDINATE", words |-> {<<"l", "a", "t">>, <<"l", "n", "g">>, <<"l", "o", "n", "g", "i", "t", "u", "d", "e">>, <<"l", "a", "t", "i", "t", "u", "d", "e">>}]>>

HintHolds(hint, name) == \E w \in hint.words : Contains(name, w)

\* SchemaInference._classify_value_type on the values of the samples
ClassifyValueType(value) == IF value = Null THEN "NULL" ELSE "INTEGER"

\* SchemaInference._detect_data_type: the most common type of the values,
\* all of which are integers here
DetectDataType(values) ==
    IF values = <<>> THEN "NULL" ELSE ClassifyValueType(values[1])

\* SchemaInference._detect_semantic_type
DetectSemanticType(name, data_type) ==
    LET name_lower == NameLower(name)
        hinted == {i \in 1..Len(NameHints) : HintHolds(NameHints[i], name_lower)}
    IN  IF AnyPattern(ID_PATTERNS, name_lower) THEN "IDENTIFIER"
        ELSE IF AnyPattern(NAME_PATTERNS, name_lower) THEN "NAME"
        ELSE IF AnyPattern(TIMESTAMP_PATTERNS, name_lower)
             THEN IF Contains(name_lower, <<"c", "r", "e", "a", "t", "e", "d">>) THEN "CREATED_AT"
                  ELSE IF Contains(name_lower, <<"u", "p", "d", "a", "t", "e", "d">>) \/ Contains(name_lower, <<"m", "o", "d", "i", "f", "i", "e", "d">>)
                       THEN "UPDATED_AT"
                       ELSE "TIMESTAMP"
        ELSE IF data_type = "EMAIL" THEN "EMAIL"
        ELSE IF data_type = "BOOLEAN" THEN "FLAG"
        ELSE IF hinted # {}
             THEN NameHints[CHOOSE i \in hinted : \A j \in hinted : i <= j].semantic_type
        ELSE IF EndsWith(name_lower, <<"_", "i", "d">>) /\ name_lower # <<"i", "d">> THEN "FOREIGN_KEY"
        ELSE "GENERIC"

\* the values of one key over the sample, in record order
ValuesOf(sample, key) ==
    LET present == SelectSeq(sample, LAMBDA record : \E j \in 1..Len(record) : record[j].key = key)
    IN  [i \in 1..Len(present) |->
            present[i][CHOOSE j \in 1..Len(present[i]) : present[i][j].key = key].value]

\* SchemaInference._infer_field (sample_values and statistics are not modelled:
\* nothing the detector reads depends on them)
InferField(name, values) ==
    LET non_null == SelectSeq(values, LAMBDA v : v # Null)
        data_type == DetectDataType(non_null)
    IN  [name |-> name,
         data_type |-> data_type,
         semantic_type |-> DetectSemanticType(name, data_type),
         nullable |-> Len(non_null) < Len(values),
         unique |-> IF non_null # <<>>
                    THEN Cardinality({non_null[i] : i \in 1..Len(non_null)}) = Len(non_null)
                    ELSE FALSE]

\* the score _detect_primary_key gives a unique field
KeyScore(info) ==
    (IF ~info.nullable THEN 2 ELSE 0)
        + (IF info.semantic_type = "IDENTIFIER" THEN 5 ELSE 0)
        + (IF info.data_type \in {"UUID", "INTEGER"} THEN 2 ELSE 0)
        + (IF Contains(NameLower(info.name), <<"i", "d">>) THEN 3 ELSE 0)

\* primary_key None
NoKey == <<>>

\* SchemaInference._detect_primary_key: the first of the best candidates
DetectPrimaryKey(fields) ==
    LET candidates == SelectSeq(fields, LAMBDA info : info.unique /\ KeyScore(info) > 0)
        best == {i \in 1..Len(candidates) :
                    \A j \in 1..Len(candidates) : KeyScore(candidates[j]) <= KeyScore(candidates[i])}
    IN  IF candidates = <<>> THEN NoKey
        ELSE candidates[CHOOSE i \in best : \A j \in best : i <= j].name

\* data[:self.sample_size]
DefaultSampleSize == 1000

Sample(data) ==
    SubSeq(data, 1, IF Len(data) < DefaultSampleSize THEN Len(data) ELSE DefaultSampleSize)

\* the keys of the sample in the order they are first met
RECURSIVE FieldOrder(_, _)
FieldOrder(keys, seen) ==
    IF keys = <<>> THEN seen
    ELSE FieldOrder(Tail(keys),
                    IF \E i \in 1..Len(seen) : seen[i] = Head(keys) THEN seen
                    ELSE Append(seen, Head(keys)))

RECURSIVE RecordKeys(_)
RecordKeys(sample) ==
    IF sample = <<>> THEN <<>>
    ELSE [j \in 1..Len(Head(sample)) |-> Head(sample)[j].key] \o RecordKeys(Tail(sample))

\* SchemaInference.infer
Infer(collection, data) ==
    IF data = <<>>
    THEN [collection |-> collection, fields |-> <<>>, primary_key |-> NoKey,
          row_count |-> 0, sample_size |-> 0]
    ELSE LET sample == Sample(data)
             names == FieldOrder(RecordKeys(sample), <<>>)
             fields == [i \in 1..Len(names) |-> InferField(names[i], ValuesOf(sample, names[i]))]
         IN  [collection |-> collection, fields |-> fields,
              primary_key |-> DetectPrimaryKey(fields),
              row_count |-> Len(data), sample_size |-> Len(sample)]

\* infer on every collection and sample of the model, computed once
Inferred == [c \in SchemaCollections, d \in SampleData |-> Infer(c, d)]

\* schemas[collection] = schema: a new key goes last, a key already there keeps its place
PutSchema(schemas, schema) ==
    IF \E i \in 1..Len(schemas) : schemas[i].collection = schema.collection
    THEN [i \in 1..Len(schemas) |->
             IF schemas[i].collection = schema.collection THEN schema ELSE schemas[i]]
    ELSE Append(schemas, schema)

\* str.replace(old, "") on a name: every occurrence of old, left to right
RECURSIVE Remove(_, _)
Remove(name, old) ==
    IF name = <<>> THEN <<>>
    ELSE IF StartsWith(name, old) THEN Remove(SubSeq(name, Len(old) + 1, Len(name)), old)
    ELSE <<Head(name)>> \o Remove(Tail(name), old)

\* field_name.replace("_id", "").replace("Id", "")
RefName(field_name) == Remove(Remove(field_name, <<"_", "i", "d">>), <<"I", "d">>)

\* the singular/plural test of _detect_by_naming
NameMatches(target_coll, ref_name) ==
    LET target_lower == NameLower(target_coll)
        ref_lower == NameLower(ref_name)
    IN  \/ target_lower = ref_lower
        \/ target_lower = ref_lower \o <<"s">>
        \/ target_lower \o <<"s">> = ref_lower

\* confidence of a relationship found by naming, in tenths
NamingConfidence == 8

SchemaOf(schemas, collection) ==
    schemas[CHOOSE i \in 1..Len(schemas) : schemas[i].collection = collection]

\* the collections the inner loop of _detect_by_naming can stop at for one
\* field: collection_names is a set of strings, whose iteration order is not
\* fixed, and the loop breaks at the first match
MatchingTargets(schemas, coll_name, field_name) ==
    {schemas[i].collection : i \in {k \in 1..Len(schemas) :
        /\ schemas[k].collection # coll_name
        /\ NameMatches(schemas[k].collection, RefName(field_name))}}

\* the (collection, field) pairs of the outer loops that append a relationship
RECURSIVE ForeignKeys(_, _)
ForeignKeys(schemas, rest) ==
    IF rest = <<>> THEN <<>>
    ELSE LET schema == Head(rest)
             found == SelectSeq(schema.fields, LAMBDA info :
                          /\ info.semantic_type = "FOREIGN_KEY"
                          /\ MatchingTargets(schemas, schema.collection, info.name) # {})
         IN  [i \in 1..Len(found) |-> [collection |-> schema.collection, field |-> found[i].name]]
                 \o ForeignKeys(schemas, Tail(rest))

Relationship(schemas, source, target_coll) ==
    LET target_key == SchemaOf(schemas, target_coll).primary_key
    IN  [source_collection |-> source.collection,
         source_field |-> source.field,
         target_collection |-> target_coll,
         target_field |-> IF target_key # NoKey THEN target_key ELSE <<"i", "d">>,
         relationship_type |-> "MANY_TO_ONE",
         confidence |-> NamingConfidence,
         inferred |-> TRUE]

\* RelationshipDetector._detect_by_naming: every list it can return
DetectByNaming(schemas) ==
    LET keys == ForeignKeys(schemas, schemas)
        picks == {p \in [1..Len(keys) -> SchemaCollections] :
                     \A k \in 1..Len(keys) :
                         p[k] \in MatchingTargets(schemas, keys[k].collection, keys[k].field)}
    IN  {[k \in 1..Len(keys) |-> Relationship(schemas, keys[k], p[k])] : p \in picks}

\* no detect call yet
NoDetect == [called |-> FALSE, relationships |-> <<>>]

SchInit ==
    /\ schSchemas = <<>>
    /\ schDetected = NoDetect
    /\ schChanged = FALSE

\* schemas[collection] = SchemaInference().infer(collection, data)
InferCall(collection, data) ==
    /\ schSchemas' = PutSchema(schSchemas, Inferred[collection, data])
    /\ schChanged' = schDetected.called
    /\ UNCHANGED schDetected
    /\ SchFrame

\* RelationshipDetector().detect(schemas): samples is None, so the value
\* overlap method is skipped and the relationships are those found by naming
DetectCall ==
    /\ \E relationships \in DetectByNaming(schSchemas) :
           schDetected' = [called |-> TRUE, relationships |-> relationships]
    /\ schChanged' = FALSE
    /\ UNCHANGED schSchemas
    /\ SchFrame

SchNext ==
    \/ \E collection \in SchemaCollections, data \in SampleData : InferCall(collection, data)
    \/ DetectCall

(***************************************************************************)
(* AIQueryOptimizer (tdbai/promptql/optimizer.py)                           *)
(* A plan is any object with a steps list; a step is an object with an     *)
(* operation and, depending on the operation, fields, conditions, function *)
(* or correlation.  An attribute a step does not have is the empty list,   *)
(* the empty string or FALSE: the code reads absent and empty alike.       *)
(* Costs are in millionths, benefits in tenths.                            *)
(***************************************************************************)
MaxOptSteps == 3

NewStep(id, operation, fields, conditions, function, correlation) ==
    [id |-> id, operation |-> operation, fields |-> fields,
     conditions |-> conditions, function |-> function,
     correlation |-> correlation, use_index |-> FALSE, partial_agg |-> FALSE]

\* the steps a caller puts into a plan
StepKinds(id) ==
    {NewStep(id, "scan", <<>>, <<>>, "", ""),
     NewStep(id, "filter", <<>>, <<"age">>, "", ""),
     NewStep(id, "join", <<>>, <<>>, "", ""),
     NewStep(id, "sort", <<"age">>, <<>>, "", ""),
     NewStep(id, "project", <<"age", "name">>, <<>>, "", ""),
     NewStep(id, "group", <<"city">>, <<>>, "", ""),
     NewStep(id, "aggregate", <<>>, <<>>, "count", ""),
     NewStep(id, "subquery", <<>>, <<>>, "", "simple")}

\* schema is None, or a dictionary whose indexes cover these fields
NoSchema == [given |-> FALSE, indexed |-> {}]

OptSchemas == {NoSchema, [given |-> TRUE, indexed |-> {"age"}]}

OperationCost(operation) ==
    CASE operation = "scan" -> 100000000
      [] operation = "index_scan" -> 40000000
      [] operation = "filter" -> 1000000
      [] operation = "sort" -> 6643856
      [] operation = "group" -> 1000000
      [] operation = "aggregate" -> 1000000
      [] operation = "join" -> 100000000
      [] operation = "limit" -> 10000
      [] operation = "project" -> 1000000
      [] OTHER -> 1000000

RECURSIVE SumStepCosts(_)
SumStepCosts(steps) ==
    IF steps = <<>> THEN 0
    ELSE OperationCost(Head(steps).operation) + SumStepCosts(Tail(steps))

Larger(a, b) == IF a >= b THEN a ELSE b

\* CostEstimate.total_cost
EstimateCost(steps) == Larger(SumStepCosts(steps), 10000)

IsFilter(step) == step.operation = "filter"

IsOther(step) == step.operation # "filter"

IsScan(step) == step.operation \in {"scan", "index_scan"}

IsJoin(step) == step.operation = "join"

\* the loop over other_steps: every scan is followed by all the filter steps
RECURSIVE AfterScans(_, _)
AfterScans(other_steps, filter_steps) ==
    IF other_steps = <<>> THEN <<>>
    ELSE IF IsScan(Head(other_steps))
         THEN <<Head(other_steps)>> \o filter_steps \o AfterScans(Tail(other_steps), filter_steps)
         ELSE <<Head(other_steps)>> \o AfterScans(Tail(other_steps), filter_steps)

PushdownPredicates(steps) ==
    LET filter_steps == SelectSeq(steps, IsFilter)
        other_steps == SelectSeq(steps, IsOther)
    IN  IF filter_steps # <<>> /\ other_steps # <<>>
        THEN [steps |-> IF \E i \in DOMAIN other_steps : IsScan(other_steps[i])
                        THEN AfterScans(other_steps, filter_steps)
                        ELSE filter_steps \o other_steps,
              flag |-> TRUE]
        ELSE [steps |-> steps, flag |-> FALSE]

ReorderJoins(steps) ==
    [steps |-> steps, flag |-> Len(SelectSeq(steps, IsJoin)) > 1]

RequiredCols(steps) ==
    UNION {{steps[i].fields[j] : j \in DOMAIN steps[i].fields} : i \in DOMAIN steps}

RECURSIVE KeepFields(_, _)
KeepFields(fields, required_cols) ==
    IF fields = <<>> THEN <<>>
    ELSE IF Head(fields) \in required_cols \/ Head(fields) = "*"
         THEN <<Head(fields)>> \o KeepFields(Tail(fields), required_cols)
         ELSE KeepFields(Tail(fields), required_cols)

PruneStep(step, required_cols) ==
    IF step.operation = "project"
    THEN [step EXCEPT !.fields = KeepFields(step.fields, required_cols)]
    ELSE step

PruneProjections(steps) ==
    LET pruned == [i \in DOMAIN steps |-> PruneStep(steps[i], RequiredCols(steps))]
    IN  [steps |-> pruned,
         flag |-> \E i \in DOMAIN steps : Len(pruned[i].fields) < Len(steps[i].fields)]

HasIndex(field, schema) == schema.given /\ field \in schema.indexed

UsesIndex(step, schema) ==
    /\ IsFilter(step)
    /\ \E c \in DOMAIN step.conditions : HasIndex(step.conditions[c], schema)

SelectIndexes(steps, schema) ==
    [steps |-> [i \in DOMAIN steps |->
                   IF UsesIndex(steps[i], schema)
                   THEN [steps[i] EXCEPT !.use_index = TRUE]
                   ELSE steps[i]],
     flag |-> \E i \in DOMAIN steps : UsesIndex(steps[i], schema)]

IsPartial(step) ==
    step.operation = "aggregate" /\ step.function \in {"count", "sum", "min", "max"}

OptimizeAggregations(steps) ==
    [steps |-> [i \in DOMAIN steps |->
                   IF IsPartial(steps[i])
                   THEN [steps[i] EXCEPT !.partial_agg = TRUE]
                   ELSE steps[i]],
     flag |-> \E i \in DOMAIN steps : IsPartial(steps[i])]

IsSimpleSubquery(step) ==
    step.operation = "subquery" /\ step.correlation = "simple"

FlattenSubqueries(steps) ==
    [steps |-> [i \in DOMAIN steps |->
                   IF IsSimpleSubquery(steps[i])
                   THEN [steps[i] EXCEPT !.operation = "semi_join"]
                   ELSE steps[i]],
     flag |-> \E i \in DOMAIN steps : IsSimpleSubquery(steps[i])]

\* the fields of the steps of one operation, in plan order
RECURSIVE FieldsOf(_, _)
FieldsOf(steps, operation) ==
    IF steps = <<>> THEN <<>>
    ELSE (IF Head(steps).operation = operation
          THEN (IF operation = "filter" THEN Head(steps).conditions ELSE Head(steps).fields)
          ELSE <<>>) \o FieldsOf(Tail(steps), operation)

\* the keys of a dictionary filled in this order
RECURSIVE KeysInOrder(_)
KeysInOrder(fields) ==
    IF fields = <<>> THEN <<>>
    ELSE LET front == KeysInOrder(SubSeq(fields, 1, Len(fields) - 1))
             last == fields[Len(fields)]
         IN  IF \E i \in DOMAIN front : front[i] = last THEN front ELSE Append(front, last)

Occurrences(fields, field) == Cardinality({i \in DOMAIN fields : fields[i] = field})

Recommendation(fields, benefit, reason) ==
    [collection |-> "unknown", fields |-> fields, index_type |-> "btree",
     estimated_benefit |-> benefit, reason |-> reason]

RECURSIVE FilterRecommendations(_, _, _)
FilterRecommendations(keys, filtered, schema) ==
    IF keys = <<>> THEN <<>>
    ELSE (IF HasIndex(Head(keys), schema) THEN <<>>
          ELSE <<Recommendation(<<Head(keys)>>, 5 * Occurrences(filtered, Head(keys)), "filter")>>)
         \o FilterRecommendations(Tail(keys), filtered, schema)

FirstOf(fields, n) == SubSeq(fields, 1, IF Len(fields) < n THEN Len(fields) ELSE n)

GenerateIndexRecommendations(steps, schema) ==
    LET filtered == FieldsOf(steps, "filter")
        sort_fields == FieldsOf(steps, "sort")
        group_fields == FieldsOf(steps, "group")
        composite_fields == FirstOf(KeysInOrder(filtered), 2) \o FirstOf(sort_fields, 1)
    IN  FilterRecommendations(KeysInOrder(filtered), filtered, schema)
        \o (IF sort_fields # <<>> /\ filtered # <<>> /\ Len(composite_fields) > 1
            THEN <<Recommendation(composite_fields, 7, "composite")>> ELSE <<>>)
        \o (IF group_fields # <<>>
            THEN <<Recommendation(group_fields, 6, "group")>> ELSE <<>>)

\* _plan_to_dict of a plan without to_dict, whose steps have no details
PlanToDict(steps) ==
    [steps |-> [i \in DOMAIN steps |-> [operation |-> steps[i].operation, details |-> <<>>]]]

Listed(optimizations, pass, name) ==
    IF pass.flag THEN Append(optimizations, name) ELSE optimizations

NoOptimization ==
    [called |-> FALSE, original_plan |-> PlanToDict(<<>>), optimized_plan |-> PlanToDict(<<>>),
     cost_reduction |-> <<0, 1>>, optimizations_applied |-> <<>>,
     index_recommendations |-> <<>>, estimated_speedup |-> <<0, 1>>]

OptInit ==
    /\ optPlan = <<>>
    /\ optBefore = <<>>
    /\ optResult = NoOptimization

\* the caller appends a step to the plan it is going to hand to optimize
AddStep(step) ==
    /\ ~optResult.called
    /\ Len(optPlan) < MaxOptSteps
    /\ optPlan' = Append(optPlan, step)
    /\ optBefore' = optPlan'
    /\ UNCHANGED optResult
    /\ OptFrame

\* optimize(plan, schema): optimized is the plan object itself, every pass
\* writes to that object, and both dictionaries and the recommendations are
\* read from it when the passes are over
OptimizeCall(schema) ==
    /\ ~optResult.called
    /\ \E pushed \in {PushdownPredicates(optPlan)} :
       \E reordered \in {ReorderJoins(pushed.steps)} :
       \E pruned \in {PruneProjections(reordered.steps)} :
       \E indexed \in {SelectIndexes(pruned.steps, schema)} :
       \E agg_opt \in {OptimizeAggregations(indexed.steps)} :
       \E flattened \in {FlattenSubqueries(agg_opt.steps)} :
           /\ optPlan' = flattened.steps
           /\ optResult' =
                  [called |-> TRUE,
                   original_plan |-> PlanToDict(flattened.steps),
                   optimized_plan |-> PlanToDict(flattened.steps),
                   cost_reduction |->
                       <<EstimateCost(optPlan) - EstimateCost(flattened.steps),
                         Larger(EstimateCost(optPlan), 1000)>>,
                   optimizations_applied |->
                       Listed(Listed(Listed(Listed(Listed(Listed(<<>>,
                           pushed, "predicate_pushdown"),
                           reordered, "join_reorder"),
                           pruned, "projection_pruning"),
                           indexed, "index_selection"),
                           agg_opt, "aggregation_optimization"),
                           flattened, "subquery_flattening"),
                   index_recommendations |->
                       GenerateIndexRecommendations(flattened.steps, schema),
                   estimated_speedup |->
                       <<EstimateCost(optPlan),
                         Larger(EstimateCost(flattened.steps), 1000)>>]
    /\ UNCHANGED optBefore
    /\ OptFrame

OptNext ==
    \/ \E step \in StepKinds(Len(optPlan) + 1) : AddStep(step)
    \/ \E schema \in OptSchemas : OptimizeCall(schema)

(***************************************************************************)
(* MultiStepReasoner (tdbai/promptql/reasoner.py)                           *)
(* A prompt is a list of words, its text the characters of the words       *)
(* joined by blanks, so that lower(), the substring tests and the split at *)
(* and/then/also read the characters the code reads.  A reasoning step      *)
(* keeps its number, its type and the varying part of its thought and      *)
(* action; the texts filled into a template line are left out.             *)
(***************************************************************************)
MaxReasonWords == 3

MaxReasonSteps == 10

ReasonWords == {<<"s", "h", "o", "w">>, <<"i", "t">>, <<"a", "n", "d">>, <<"r", "e", "c", "e", "n", "t", "l", "y">>, <<"C", "o", "m", "p", "a", "r", "e">>, <<"a", "c", "c", "o", "u", "n", "t">>, <<"t", "r", "e", "n", "d">>}

\* max_reasoning_steps of the configuration
ConfigMaxSteps == {5, 10}

\* len(plan.steps) of the plan handed to reason
ReasonPlanLengths == {2, 5}

\* schema is None, or a dictionary whose "fields" lists these fields
ReasonSchemaNone == [given |-> FALSE, fields |-> <<>>]

ReasonSchemas ==
    {ReasonSchemaNone,
     [given |-> TRUE, fields |-> <<<<"n", "a", "m", "e">>, <<"a", "g", "e">>>>],
     [given |-> TRUE, fields |-> <<<<"n", "a", "m", "e">>, <<"u", "s", "e", "r", "n", "a", "m", "e">>>>]}

TextLowerChar(c) ==
    CASE c = "C" -> "c"
      [] c = "T" -> "t"
      [] OTHER -> c

TextLower(text) == [i \in 1..Len(text) |-> TextLowerChar(text[i])]

RECURSIVE TextOf(_)
TextOf(words) ==
    IF words = <<>> THEN <<>>
    ELSE IF Len(words) = 1 THEN words[1]
    ELSE words[1] \o <<" ">> \o TextOf(Tail(words))

AnyIn(parts, text) == \E part \in parts : Contains(text, part)

SplitWords == {<<"a", "n", "d">>, <<"t", "h", "e", "n">>, <<"a", "l", "s", "o">>}

\* the non-empty pieces of re.split(r'\band\b|\bthen\b|\balso\b', text)
RECURSIVE Pieces(_, _)
Pieces(words, piece) ==
    IF words = <<>> THEN (IF piece = <<>> THEN 0 ELSE 1)
    ELSE IF TextLower(Head(words)) \in SplitWords
         THEN (IF piece = <<>> THEN 0 ELSE 1) + Pieces(Tail(words), <<>>)
         ELSE Pieces(Tail(words), Append(piece, Head(words)))

\* len(self._decompose_query(prompt, schema))
DecomposeCount(words) ==
    LET text == TextLower(TextOf(words))
        nested == Contains(text, <<"w", "h", "o">>)
                  /\ (Contains(text, <<"m", "o", "r", "e", " ", "t", "h", "a", "n">>) \/ Contains(text, <<"l", "e", "s", "s", " ", "t", "h", "a", "n">>))
        found == Pieces(words, <<>>) + (IF nested THEN 1 ELSE 0)
    IN  IF found = 0 THEN 1 ELSE found

Pronouns == <<<<"i", "t">>, <<"t", "h", "e", "y">>, <<"t", "h", "e", "m">>, <<"t", "h", "e", "s", "e">>, <<"t", "h", "o", "s", "e">>, <<"t", "h", "i", "s">>, <<"t", "h", "a", "t">>>>

TimeAmbiguities == <<<<"r", "e", "c", "e", "n", "t", "l", "y">>, <<"a", " ", "w", "h", "i", "l", "e", " ", "a", "g", "o">>, <<"s", "o", "m", "e", " ", "t", "i", "m", "e">>, <<"p", "r", "e", "v", "i", "o", "u", "s", "l", "y">>>>

RECURSIVE PronounTerms(_, _)
PronounTerms(pronouns, text) ==
    IF pronouns = <<>> THEN <<>>
    ELSE (IF Contains(text, <<" ">> \o Head(pronouns) \o <<" ">>)
          THEN <<Head(pronouns)>> ELSE <<>>)
         \o PronounTerms(Tail(pronouns), text)

RECURSIVE TimeTerms(_, _)
TimeTerms(terms, text) ==
    IF terms = <<>> THEN <<>>
    ELSE (IF Contains(text, Head(terms)) THEN <<Head(terms)>> ELSE <<>>)
         \o TimeTerms(Tail(terms), text)

Shorter(a, b) == IF a <= b THEN a ELSE b

\* _levenshtein_similar with threshold 0.8: equal characters at equal positions
LevenshteinSimilar(s1, s2) ==
    /\ Len(s1) >= 3
    /\ Len(s2) >= 3
    /\ 10 * Cardinality({i \in 1..Shorter(Len(s1), Len(s2)) : s1[i] = s2[i]})
           >= 8 * Larger(Len(s1), Len(s2))

SimilarField(field, f) ==
    /\ f # field
    /\ \/ Contains(TextLower(f), TextLower(field))
       \/ Contains(TextLower(field), TextLower(f))
       \/ LevenshteinSimilar(TextLower(field), TextLower(f))

SameMembers(g, h) ==
    /\ Len(g) = Len(h)
    /\ \A i \in DOMAIN g :
           Cardinality({j \in DOMAIN g : g[j] = g[i]}) = Cardinality({j \in DOMAIN h : h[j] = g[i]})

\* the loop of _find_similar_fields over all_fields[i..]
RECURSIVE SimilarGroups(_, _, _)
SimilarGroups(all_fields, i, groups) ==
    IF i > Len(all_fields) THEN groups
    ELSE LET field == all_fields[i]
             similar == SelectSeq(all_fields, LAMBDA f : SimilarField(field, f))
             group == <<field>> \o similar
         IN  SimilarGroups(all_fields, i + 1,
                 IF similar # <<>> /\ ~\E g \in DOMAIN groups : SameMembers(groups[g], group)
                 THEN Append(groups, group) ELSE groups)

RECURSIVE FieldTerms(_)
FieldTerms(groups) ==
    IF groups = <<>> THEN <<>>
    ELSE (IF Len(Head(groups)) > 1 THEN <<Head(groups)[1]>> ELSE <<>>)
         \o FieldTerms(Tail(groups))

\* the terms of self._identify_ambiguities(prompt, schema), in its order
IdentifyAmbiguities(words, schema) ==
    LET text == TextLower(TextOf(words))
    IN  PronounTerms(Pronouns, text)
        \o (IF schema.given /\ schema.fields # <<>>
            THEN FieldTerms(SimilarGroups(schema.fields, 1, <<>>)) ELSE <<>>)
        \o TimeTerms(TimeAmbiguities, text)

\* the keys of self._resolve_ambiguities(ambiguities, schema)
ResolveAmbiguities(ambiguities) == KeysInOrder(ambiguities)

SelectReasoningStrategy(words, plan_steps) ==
    LET text == TextLower(TextOf(words))
    IN  IF Contains(text, <<"c", "o", "m", "p", "a", "r", "e">>) \/ Contains(text, <<"v", "e", "r", "s", "u", "s">>) THEN "compare"
        ELSE IF Contains(text, <<"t", "r", "e", "n", "d">>) \/ Contains(text, <<"o", "v", "e", "r", " ", "t", "i", "m", "e">>) THEN "trend"
        ELSE IF AnyIn({<<"a", "v", "e", "r", "a", "g", "e">>, <<"s", "u", "m">>, <<"c", "o", "u", "n", "t">>, <<"t", "o", "t", "a", "l">>}, text) THEN "aggregation"
        ELSE IF Contains(text, <<"t", "h", "a", "n">>) /\ Contains(text, <<"a", "v", "e", "r", "a", "g", "e">>) THEN "subquery"
        ELSE IF plan_steps > 4 THEN "complex_filter"
        ELSE "aggregation"

\* every entry of REASONING_TEMPLATES has this many lines
TemplateLines(strategy) ==
    IF strategy \in {"compare", "trend", "complex_filter", "aggregation", "subquery"}
    THEN 4 ELSE 0

ReasoningStep(steps, step_type, thought, action) ==
    Append(steps, [step_number |-> Len(steps) + 1, step_type |-> step_type,
                   thought |-> thought, action |-> action])

\* step 2 of reason: its step_number is the constant 2
Clarify(steps, ambiguities) ==
    IF ambiguities # <<>>
    THEN Append(steps, [step_number |-> 2, step_type |-> "CLARIFY",
                        thought |-> <<"Found", Len(ambiguities)>>,
                        action |-> <<"Resolved", ResolveAmbiguities(ambiguities)>>])
    ELSE steps

\* the loop over template_steps from line i on: the step is added, then the
\* length of the chain is compared with max_steps
RECURSIVE ApplyTemplate(_, _, _, _)
ApplyTemplate(steps, strategy, i, max_steps) ==
    IF i > TemplateLines(strategy) THEN steps
    ELSE LET added == ReasoningStep(steps, "COMPUTE", <<strategy, i>>, <<"Execute">>)
         IN  IF Len(added) >= max_steps THEN added
             ELSE ApplyTemplate(added, strategy, i + 1, max_steps)

\* status of self._validate_reasoning(chain, schema): no step has a
\* confidence below 0.8, DECOMPOSE occurs once and SYNTHESIZE is present
ValidateReasoning(steps, config_max) ==
    IF Len(steps) > config_max THEN "warning" ELSE "valid"

Validate(steps, config_max) ==
    ReasoningStep(steps, "VALIDATE", <<"Validating">>,
                  <<"Validation", ValidateReasoning(steps, config_max)>>)

Chain(words, plan_steps, schema, config_max, max_steps) ==
    Validate(
        ReasoningStep(
            ApplyTemplate(
                ReasoningStep(
                    Clarify(
                        ReasoningStep(<<>>, "DECOMPOSE", <<"Breaking">>,
                                      <<"Identified", DecomposeCount(words)>>),
                        IdentifyAmbiguities(words, schema)),
                    "INFER", <<"Selected", SelectReasoningStrategy(words, plan_steps)>>,
                    <<"Apply">>),
                SelectReasoningStrategy(words, plan_steps), 1, max_steps),
            "SYNTHESIZE", <<"Combining">>, <<"Generate">>),
        config_max)

\* chain.to_list(): one string per step, made of its number, thought and action
ToList(steps) ==
    [i \in DOMAIN steps |->
        <<"Step", steps[i].step_number, steps[i].thought, steps[i].action>>]

NoReasoning == [called |-> FALSE, max_steps |-> 0, steps |-> <<>>, trace |-> <<>>]

ReaInit ==
    /\ reaPrompt = <<>>
    /\ reaResult = NoReasoning

\* the caller writes one more word of the prompt
AddWord(word) ==
    /\ ~reaResult.called
    /\ Len(reaPrompt) < MaxReasonWords
    /\ reaPrompt' = Append(reaPrompt, word)
    /\ UNCHANGED reaResult
    /\ ReaFrame

\* trace = await MultiStepReasoner(config).reason(prompt, plan, schema, max_steps)
Reason(plan_steps, schema, config_max, max_steps) ==
    /\ ~reaResult.called
    /\ reaPrompt # <<>>
    /\ \E steps \in {Chain(reaPrompt, plan_steps, schema, config_max, max_steps)} :
           reaResult' = [called |-> TRUE, max_steps |-> max_steps,
                         steps |-> steps, trace |-> ToList(steps)]
    /\ UNCHANGED reaPrompt
    /\ ReaFrame

ReaNext ==
    \/ \E word \in ReasonWords : AddWord(word)
    \/ \E plan_steps \in ReasonPlanLengths, schema \in ReasonSchemas,
          config_max \in ConfigMaxSteps, max_steps \in 1..MaxReasonSteps :
           Reason(plan_steps, schema, config_max, max_steps)

\* time passes between two calls or await points
Tick(max) ==
    /\ clock < max
    /\ clock' = clock + 1
    /\ UNCHANGED <<execVars, engVars, limVars, llmVars, memVars, ctxVars, mgrVars, planVars, opVars, schVars, optVars, reaVars>>

ExecTick == Tick(MaxTime)

EngTick == Tick(MaxTime)

LimTick == Tick(MaxTime)

LlmTick == Tick(MaxTime)

MemTick == Tick(MaxTime)

\* every component as it is after construction
InitComponents(caching, enabled) ==
    /\ clock = 0
    /\ MgrInit
    /\ PlanInit
    /\ SchInit
    /\ OptInit
    /\ ReaInit
    /\ ExecInit
    /\ EngInit(caching)
    /\ LlmInit(enabled)

InitRest(caching, enabled) ==
    /\ InitComponents(caching, enabled)
    /\ OpInit

InitExec ==
    /\ InitRest({TRUE}, {TRUE})
    /\ LimInit
    /\ memMaxSize = MaxMemSize /\ MemInit
    /\ convCtx = NewContext(1, MaxTurnsCap, "s1") /\ CtxInit

InitLimiter == InitExec

InitEngine ==
    /\ InitRest(BOOLEAN, {TRUE})
    /\ LimInit
    /\ memMaxSize = MaxMemSize /\ MemInit
    /\ convCtx = NewContext(1, MaxTurnsCap, "s1") /\ CtxInit

InitLLM ==
    /\ InitRest({TRUE}, BOOLEAN)
    /\ (LimInit \/ LimInitDrained)
    /\ memMaxSize = MaxMemSize /\ MemInit
    /\ convCtx = NewContext(1, MaxTurnsCap, "s1") /\ CtxInit

InitMemory ==
    /\ InitRest({TRUE}, {TRUE})
    /\ LimInit
    /\ MemInit
    /\ convCtx = NewContext(1, MaxTurnsCap, "s1") /\ CtxInit

InitContext ==
    /\ InitRest({TRUE}, {TRUE})
    /\ LimInit
    /\ memMaxSize = MaxMemSize /\ MemInit
    /\ CtxInit

SpecExec == InitExec /\ [][ExecTick \/ ExecNext]_vars

SpecEngine == InitEngine /\ [][EngTick \/ EngNext]_vars

SpecLimiter == InitLimiter /\ [][LimTick \/ LimNext]_vars

SpecLLM == InitLLM /\ [][LlmTick \/ LlmNext]_vars

SpecMemory == InitMemory /\ [][MemTick \/ MemNext]_vars

SpecContext == InitContext /\ [][CtxNext]_vars

SpecManager == InitExec /\ [][MgrNext]_vars

SpecPlanner == InitExec /\ [][PlanNext]_vars

InitSimilar ==
    /\ InitRest({TRUE}, {TRUE})
    /\ LimInit
    /\ SimInit
    /\ convCtx = NewContext(1, MaxTurnsCap, "s1") /\ CtxInit

SpecSimilar == InitSimilar /\ [][SimNext]_vars

\* an operator is about to be applied to a relation
InitOperator ==
    /\ InitComponents({TRUE}, {TRUE})
    /\ LimInit
    /\ memMaxSize = MaxMemSize /\ MemInit
    /\ convCtx = NewContext(1, MaxTurnsCap, "s1") /\ CtxInit
    /\ opCount = 0
    /\ opPrev = NoOpCall
    /\ opLast = NoOpCall

InitSort ==
    /\ InitOperator
    /\ \E kg \in OperatorRelations : opData = Relation(kg)
    /\ opRight = <<>>

SpecSort == InitSort /\ [][SortNext]_vars

SpecAggregate == InitSort /\ [][AggregateNext]_vars

InitJoin ==
    /\ InitOperator
    /\ \E ks \in LeftRelations : opData = LeftRelation(ks)
    /\ opRight \in ScanResults

SpecJoin == InitJoin /\ [][JoinNext]_vars

SpecRowCap == InitSort /\ [][RowCapNext]_vars

SpecSchema == InitExec /\ [][SchNext]_vars

SpecOptimizer == InitExec /\ [][OptNext]_vars

SpecReasoner == InitExec /\ [][ReaNext]_vars

(***************************************************************************)
(* Claims about QueryExecutor                                               *)
(***************************************************************************)

\* C1 (as claimed): within one execution a terminal status is final; once
\* cancel has set a running execution to CANCELLED, the completion of execute
\* neither changes that status nor returns a COMPLETED result.
C1_TerminalStatusIsFinal ==
    [][\A t \in Tasks :
        (execPc[t] = "running" /\ execStatus[t] \in Terminal)
            => /\ execStatus'[t] = execStatus[t]
               /\ execResult'[t].status # "COMPLETED"]_vars

\* C5: every ending of execute returns a result (none raises): a timeout gives
\* success=false, FAILED, data null, row_count 0 and the timeout error; a
\* raising step gives FAILED with the underlying message; and in every outcome
\* the execution id is no longer in active_executions when execute returns.
C5_ExecuteReturnsAndUnregisters ==
    [][\A t \in Tasks :
        (execPc[t] = "running" /\ execPc'[t] = "returned")
            => /\ execId[t] \notin DOMAIN active'
               /\ execOutcome'[t].kind \in {"finished", "timeout", "raised"}
               /\ execOutcome'[t].kind = "timeout" =>
                     execResult'[t] = [success |-> FALSE, status |-> "FAILED",
                                       dataNull |-> TRUE, row_count |-> 0,
                                       error |-> "Query timeout after",
                                       error_ms |-> execTimeout[t]]
               /\ execOutcome'[t].kind = "raised" =>
                     /\ execResult'[t].status = "FAILED"
                     /\ ~execResult'[t].success
                     /\ execResult'[t].error = execOutcome'[t].msg
               /\ execOutcome'[t].kind = "finished" =>
                     /\ execResult'[t].status = "COMPLETED"
                     /\ execResult'[t].success]_vars

\* C5 witness: one execute timed out and another failed in a step, both have
\* returned, and nothing is left registered.
C5_Witness ==
    \E t, u \in Tasks :
        /\ execPc[t] = "returned" /\ execOutcome[t].kind = "timeout"
        /\ execPc[u] = "returned" /\ execOutcome[u].kind = "raised"
        /\ DOMAIN active = {}

(***************************************************************************)
(* Claims about PromptQLEngine                                              *)
(***************************************************************************)

\* C2 (as claimed): no exception crosses query, explain or suggest: every call
\* returns normally, and a query that fails returns success=false with the
\* error message.
C2_NoExceptionCrossesEntryPoints ==
    \A s \in Sessions :
        /\ engLast[s].outcome # "raised"
        /\ (engLast[s].op = "query" /\ ~engLast[s].success)
              => engLast[s].error # "none"

\* a step in which session s makes a query that misses the result cache
QueryMissBy(s) ==
    /\ engCalls'[s] = engCalls[s] + 1
    /\ engLast'[s].op = "query"
    /\ ~CacheHit(engCache, CacheKey(engLast'[s].prompt, engLast'[s].ctx), clock)

\* C3 (as claimed): with caching enabled and no collaborator failing, a query
\* that misses the cache returns success=true with cached=false, records its
\* turn in the conversation context and stores the result under its key; an
\* identical query within the TTL returns the stored result with cached=true
\* and leaves context and cache alone.
C3_QueryMissRunsPipelineAndCaches ==
    [][\A s \in Sessions :
        (/\ engCaching
         /\ engCalls'[s] = engCalls[s] + 1
         /\ engLast'[s].op = "query"
         /\ engLast'[s].fail = "none")
        => LET key == CacheKey(engLast'[s].prompt, engLast'[s].ctx) IN
           IF CacheHit(engCache, key, clock)
           THEN /\ engLast'[s].cached
                /\ engCache' = engCache
                /\ engContext' = engContext
           ELSE /\ engLast'[s].success
                /\ ~engLast'[s].cached
                /\ engContext'.current_turn_id = engContext.current_turn_id + 1
                /\ key \in DOMAIN engCache'
                /\ engCache'[key].ts = clock]_vars

\* C4 (as claimed): a query of one session adds its turn to that session's
\* ConversationContext and leaves the context of every other session as it was.
C4_SessionContextsIsolated ==
    [][\A s \in Sessions :
        (QueryMissBy(s) /\ engLast'[s].fail = "none")
        => /\ SessionContext(s)'.current_turn_id
                = SessionContext(s).current_turn_id + 1
           /\ \A r \in Sessions \ {s} : SessionContext(r)' = SessionContext(r)]_vars

(***************************************************************************)
(* Claims about RateLimiter                                                 *)
(***************************************************************************)
\* 60/rpm seconds, in ticks
PeriodTicks == (60 * TicksPerSecond) \div Rpm

\* C6: with rpm = 60 none of the first 60 acquire calls sleeps, and the 61st,
\* entered d < 60/rpm seconds after the first, sleeps 60/rpm - d seconds
\* (exactly 60/rpm = 1 second when the calls are back to back).
C6_FirstRpmFreeThenBlocks ==
    /\ (limBlockedAt = 0 \/ limBlockedAt > Rpm)
    /\ (limCount = Rpm + 1 /\ limLastRefill - limFirstAt < PeriodTicks)
          => limLastWait = PeriodTicks - (limLastRefill - limFirstAt)

\* C6 witness: 61 back-to-back calls were made, the 61st slept a full period
\* and has returned.
C6_Witness ==
    /\ limCount = Rpm + 1
    /\ limReturned = Rpm + 1
    /\ limLastRefill = limFirstAt
    /\ limBlockedAt = Rpm + 1
    /\ limLastWait = PeriodTicks

(***************************************************************************)
(* Claims about QueryLLMIntegration._call_llm                               *)
(***************************************************************************)
\* 2^k seconds for k = 0 .. n-1
BackoffsAfter(n) == [k \in 1..n |-> 2^(k - 1)]

\* C7: a call whose every attempt failed has invoked the provider exactly
\* retry_attempts times, slept 2^k seconds after failed attempt k for
\* k = 0 .. retry_attempts-2, did not sleep after the last one, stored nothing
\* and raised; a call that returned a provider response slept 2^k seconds
\* after each failed attempt before it, made no provider call after the
\* successful one, and put exactly that response into the cache when caching
\* is enabled and nothing otherwise.
C7_RetriesBackoffAndCachesSuccessOnly ==
    \A t \in Tasks :
        /\ llmCalls[t] <= RetryAttempts
        /\ llmPc[t] = "backoff" => llmCalls[t] < RetryAttempts
        /\ llmPc[t] = "raised" =>
              /\ llmCalls[t] = RetryAttempts
              /\ llmSleeps[t] = BackoffsAfter(RetryAttempts - 1)
              /\ llmStored[t] = <<>>
              /\ llmResult[t] = 0
        /\ (llmPc[t] = "returned" /\ llmCalls[t] > 0) =>
              /\ llmSleeps[t] = BackoffsAfter(llmCalls[t] - 1)
              /\ llmResult[t] # 0
              /\ llmStored[t] = IF llmCacheEnabled THEN <<llmResult[t]>> ELSE <<>>

\* C7 witness: with caching enabled one call has raised after retry_attempts
\* failed attempts and another has returned the response of its second attempt.
C7_Witness ==
    \E t, u \in Tasks :
        /\ llmCacheEnabled
        /\ llmPc[t] = "raised" /\ llmCalls[t] = RetryAttempts
        /\ Len(llmSleeps[t]) = RetryAttempts - 1
        /\ llmPc[u] = "returned" /\ llmCalls[u] = 2
        /\ llmStored[u] = <<llmResult[u]>>

(***************************************************************************)
(* Claims about QueryMemory                                                 *)
(***************************************************************************)
\* C8: store puts a fresh entry under the key; a recall right after the store
\* of the same key returns that entry with access_count and last_accessed
\* bumped; a recall of an entry whose age exceeds max_age_seconds returns None
\* and removes it; a recall of an absent key returns None whatever the max
\* age, and no recall brings a key back.
C8_StoreRecallAndExpiry ==
    [][memOps' = memOps + 1 =>
        LET k == memLast'.key
            i == MemIndex(memories, k)
            j == MemIndex(memories', k)
            recall == memLast'.op = "recall"
        IN
        /\ memLast'.op = "store" =>
              /\ j # 0
              /\ memories'[j].key = k
              /\ memories'[j].created_at = clock
              /\ memories'[j].access_count = 1
              /\ memories'[j].last_accessed = clock
        /\ (recall /\ memLast.op = "store" /\ memLast.key = k
                /\ i # 0 /\ memories[i].created_at = clock) =>
              /\ memLast'.found
              /\ memLast'.entry = [memories[i] EXCEPT !.access_count = 2,
                                                       !.last_accessed = clock]
              /\ memories[i].access_count = 1
              /\ j # 0 /\ memories'[j] = memLast'.entry
        /\ (recall /\ i # 0
                /\ clock - memories[i].created_at > memLast'.max_age * TicksPerSecond) =>
              /\ ~memLast'.found
              /\ j = 0
        /\ (recall /\ i = 0) =>
              /\ ~memLast'.found
              /\ memories' = memories
        /\ recall =>
              \A n \in 1..Len(memories') : MemIndex(memories, memories'[n].key) # 0
    ]_vars

\* C8 witness: one entry was stored and recalled at once (its access_count is
\* 2), and the latest call is a recall that found its entry too old, returned
\* None and removed it.
C8_Witness ==
    /\ memLast.op = "recall"
    /\ memLast.expired
    /\ ~memLast.found
    /\ MemIndex(memories, memLast.key) = 0
    /\ \E n \in 1..Len(memories) :
          /\ memories[n].access_count = 2
          /\ memories[n].last_accessed = memories[n].created_at

\* C9: with max_size >= 1 the memory never holds more than max_size entries,
\* and a store leaves its own entry in place and removes only entries whose
\* last_accessed is no later than that of every entry that stays.
C9_BoundedAndEvictsOldestAccessed ==
    /\ [](memMaxSize >= 1 => Len(memories) <= memMaxSize)
    /\ [][(memMaxSize >= 1 /\ memOps' = memOps + 1 /\ memLast'.op = "store") =>
            /\ MemIndex(memories', memLast'.key) # 0
            /\ \A i \in 1..Len(memories) :
                  MemIndex(memories', memories[i].key) = 0 =>
                      \A j \in 1..Len(memories') :
                          memories[i].last_accessed <= memories'[j].last_accessed
       ]_vars

\* C9 witness: a store has overflowed the capacity and evicted an entry, while
\* an entry created no later than the evicted one, but recalled since, stays.
C9_Witness ==
    /\ memLast.op = "store"
    /\ Len(memLast.evicted) = 1
    /\ Len(memories) = memMaxSize
    /\ MemIndex(memories, memLast.key) # 0
    /\ \E n \in 1..Len(memories) :
          /\ memories[n].created_at <= memLast.evicted[1].created_at
          /\ memories[n].access_count >= 2
          /\ memories[n].last_accessed > memLast.evicted[1].last_accessed

(***************************************************************************)
(* Claims about ConversationContext                                         *)
(***************************************************************************)
\* C10: after n add_turn calls the buffer holds min(n, max_turns) turns, the
\* most recently added ones in insertion order, and the calls were given the
\* turn ids 1, 2, ..., n.
C10_BufferHoldsMostRecentTurns ==
    LET n == ctxAdded
        k == IF n < convCtx.max_turns THEN n ELSE convCtx.max_turns
    IN
    /\ ctxIds = [i \in 1..n |-> i]
    /\ convCtx.current_turn_id = n
    /\ Len(convCtx.turns) = k
    /\ \A i \in 1..k : convCtx.turns[i].turn_id = n - k + i

\* C10 witness: max_turns = 2 and three add_turn calls: the buffer holds
\* turns 2 and 3.
C10_Witness ==
    /\ convCtx.max_turns = 2
    /\ ctxAdded = 3
    /\ Len(convCtx.turns) = 2
    /\ convCtx.turns[1].turn_id = 2
    /\ convCtx.turns[2].turn_id = 3

\* the greatest last_mention among the tracked entities
LatestMention(entities) ==
    CHOOSE m \in {entities[i].last_mention : i \in 1..Len(entities)} :
        \A i \in 1..Len(entities) : entities[i].last_mention <= m

\* C11 (as claimed): resolve_reference("it") returns None when no entity has
\* been tracked, and otherwise the name of an entity whose last_mention is
\* the greatest of all, however often other entities were mentioned before.
C11_ItResolvesToMostRecentEntity ==
    ctxResolved.reference = "it" =>
        IF convCtx.entities = <<>>
        THEN ctxResolved.name = "None"
        ELSE \E i \in 1..Len(convCtx.entities) :
                /\ convCtx.entities[i].name = ctxResolved.name
                /\ convCtx.entities[i].last_mention = LatestMention(convCtx.entities)

(***************************************************************************)
(* Claims about ContextManager                                              *)
(***************************************************************************)
\* C12 (as claimed): a get_or_create_context call that follows one with the
\* same session id returns the same object and leaves every context, the
\* session map and the active session as they were; and a call creates a
\* context only when its session id is not in the map.
C12_GetOrCreateIsIdempotent ==
    [][(mgrCalls' = mgrCalls + 1 /\ mgrLast'.op = "get_or_create") =>
        /\ (mgrLast.op = "get_or_create" /\ mgrLast.arg = mgrLast'.arg) =>
              /\ mgrLast'.oid = mgrLast.oid
              /\ mgrHeap' = mgrHeap
              /\ mgrContexts' = mgrContexts
              /\ mgrActive' = mgrActive
        /\ Len(mgrHeap') > Len(mgrHeap) =>
              SessionKey(mgrLast'.arg) \notin DOMAIN mgrContexts
    ]_vars

\* the steps of the plan the latest create_plan returned
PlanSteps == planLast.steps

\* C13: in every plan create_plan returns the step ids are pairwise distinct
\* and strictly increasing in list order, they start again from 1 in each
\* plan, and every dependency of a step is the id of an earlier step of the
\* same plan, so the dependency graph has no cycle
C13_StepIdsIncreaseAndDependOnEarlierSteps ==
    planCalls > 0 =>
        /\ PlanSteps # <<>>
        /\ PlanSteps[1].id = 1
        /\ \A i, j \in 1..Len(PlanSteps) :
               i < j => PlanSteps[i].id < PlanSteps[j].id
        /\ \A i \in 1..Len(PlanSteps) :
               \A n \in 1..Len(PlanSteps[i].dependencies) :
                   \E k \in 1..(i - 1) :
                       PlanSteps[k].id = PlanSteps[i].dependencies[n]

\* a second plan of four steps, each later step depending on another
C13_Witness ==
    /\ planCalls = 2
    /\ Len(PlanSteps) = 4
    /\ \A i \in 2..4 : PlanSteps[i].dependencies # <<>>

\* the base cost of a step type in tenths, as the specification lists them
BaseCost ==
    [FETCH |-> 10, FILTER |-> 5, JOIN |-> 30, AGGREGATE |-> 15, SORT |-> 10,
     LIMIT |-> 1, COMPARE |-> 20]

RECURSIVE SumOfBaseCosts(_)
SumOfBaseCosts(steps) ==
    IF steps = <<>> THEN 0
    ELSE BaseCost[Head(steps).type] + SumOfBaseCosts(Tail(steps))

\* C14: every step costs the base cost of its type and the plan's estimated
\* cost is the sum over its steps; "count users where age > 21" on the schema
\* users{age} gives FETCH users, FILTER age > 21, AGGREGATE count, cost 3.0
C14_CostIsSumOfBaseCosts ==
    planCalls > 0 =>
        /\ \A i \in 1..Len(PlanSteps) :
               PlanSteps[i].estimated_cost = BaseCost[PlanSteps[i].type]
        /\ planLast.estimated_cost = SumOfBaseCosts(PlanSteps)
        /\ (planLast.query = ScenarioPrompt /\ planLast.schema = SchemaUsers) =>
               /\ Len(PlanSteps) = 3
               /\ PlanSteps[1].type = "FETCH" /\ PlanSteps[1].collection = "users"
               /\ PlanSteps[2].type = "FILTER"
               /\ PlanSteps[2].params =
                      <<"conditions",
                        << [field |-> "age", operator |-> ">", value |-> "21"] >> >>
               /\ PlanSteps[3].type = "AGGREGATE"
               /\ PlanSteps[3].params = <<"function", "count">>
               /\ planLast.estimated_cost = 30

\* the plan of the scenario prompt
C14_Witness ==
    /\ planCalls > 0
    /\ planLast.query = ScenarioPrompt
    /\ planLast.schema = SchemaUsers
    /\ planLast.estimated_cost = 30

\* the entries of the memory that find_similar has to return for the call:
\* the given intent, and shared words over all distinct words at least the
\* threshold
Qualifies(entry, call) ==
    /\ entry.intent = call.intent
    /\ Union(call.query, entry) > 0
    /\ 10 * Overlap(call.query, entry) >= call.threshold * Union(call.query, entry)

\* the general part of C15: what find_similar returned are stored entries
\* that qualify, each with its Jaccard similarity, none twice, at most 5, in
\* descending order of similarity, and an entry that qualifies is left out
\* only when 5 entries at least as similar are returned
SimilarResultIsRanked ==
    memLast.op = "find_similar" =>
        LET call == memLast.similar
            res == call.result
        IN /\ Len(res) <= 5
           /\ \A i \in 1..Len(res) :
                  /\ \E k \in 1..Len(memories) : memories[k] = res[i].entry
                  /\ Qualifies(res[i].entry, call)
                  /\ res[i].overlap = Overlap(call.query, res[i].entry)
                  /\ res[i].union = Union(call.query, res[i].entry)
           /\ \A i, j \in 1..Len(res) :
                  i < j => /\ res[i].entry # res[j].entry
                           /\ ~MoreSimilar(res[j], res[i])
           /\ \A k \in 1..Len(memories) :
                  (/\ Qualifies(memories[k], call)
                   /\ \A i \in 1..Len(res) : res[i].entry # memories[k])
                  => /\ Len(res) = 5
                     /\ \A i \in 1..Len(res) :
                            res[i].overlap * Union(call.query, memories[k])
                                >= Overlap(call.query, memories[k]) * res[i].union

\* find_similar("find users", "retrieve", threshold) was called on a memory
\* that holds the stored query "find all users" and nothing else
SimilarScenario(tenths) ==
    /\ memLast.op = "find_similar"
    /\ memLast.similar.query = <<"find", "users">>
    /\ memLast.similar.intent = "retrieve"
    /\ memLast.similar.threshold = tenths
    /\ Len(memories) = 1
    /\ memories[1].query = <<"find", "all", "users">>
    /\ memories[1].intent = "retrieve"

InputPosition(i) == opLast.result[i].id

\* C17: sort returns the rows of its input in an order in which a record
\* whose (first) sort field is null comes after every record with a non-null
\* value, for order asc and for order desc, and records with equal sort keys
\* keep their input order
C17_SortIsStableWithNullsLast ==
    (opLast.op = "sort" /\ opLast.fields # <<>>) =>
        LET res == opLast.result
            f == opLast.fields[1]
        IN /\ Len(res) = Len(opData)
           /\ \A n \in 1..Len(opData) : \E i \in 1..Len(res) : res[i] = opData[n]
           /\ \A i, j \in 1..Len(res) :
                  i < j =>
                      /\ ~(Get(res[i], f) = Null /\ Get(res[j], f) # Null)
                      /\ SortKey(res[i], opLast.fields) = SortKey(res[j], opLast.fields)
                             => InputPosition(i) < InputPosition(j)

\* the records of the relation whose value for the field is not null
NonNullCount(field_name) ==
    Cardinality({ i \in 1..Len(opData) : Get(opData[i], field_name) # Null })

\* C18: for every relation, the empty one included, aggregate with function
\* count returns len(data) when no field is given and the number of records
\* with a non-null value for the field when one is given; and an aggregate
\* applied again to the unchanged relation returns what it returned before
C18_CountIsLenAndAggregateRepeats ==
    opLast.op = "aggregate" =>
        /\ (opLast.function = "count" /\ ~FieldGiven(opLast.field))
               => opLast.scalar = <<Len(opData), 1>>
        /\ (opLast.function = "count" /\ FieldGiven(opLast.field))
               => opLast.scalar = <<NonNullCount(opLast.field), 1>>
        /\ opPrev.op = "aggregate" => opLast.scalar = opPrev.scalar

\* the positions of the right rows whose join key equals that of left row i
MatchesOf(i) ==
    { j \in 1..Len(opRight) :
        Get(opRight[j], opLast.on.right) = Get(opData[i], opLast.on.left) }

\* the positions of the output rows that stem from left row i
OutputOf(i) == { n \in 1..Len(opLast.result) : opLast.result[n].id = i }

\* C19: a left join puts every left row into the output, merged once with
\* each matching right row, or unchanged and without right-side fields when
\* no right row matches; an inner join puts one merged row per pair of a left
\* row and a matching right row and nothing for a left row without a match;
\* the output follows the order of the left input
C19_JoinKeepsOrDropsUnmatchedLeftRows ==
    (opLast.op = "join" /\ opLast.join_type \in {"left", "inner"}) =>
        LET res == opLast.result
        IN /\ \A n \in 1..Len(res) : res[n].id \in 1..Len(opData)
           /\ \A n, m \in 1..Len(res) : n < m => res[n].id <= res[m].id
           /\ \A i \in 1..Len(opData) :
                  IF MatchesOf(i) # {}
                  THEN /\ Cardinality(OutputOf(i)) = Cardinality(MatchesOf(i))
                       /\ \A j \in MatchesOf(i) :
                              \E n \in OutputOf(i) :
                                  res[n] = Merged(opData[i], opRight[j])
                  ELSE IF opLast.join_type = "left"
                  THEN /\ Cardinality(OutputOf(i)) = 1
                       /\ \A n \in OutputOf(i) : res[n] = opData[i]
                  ELSE OutputOf(i) = {}

\* a left join in which one left row matches two right rows and another left
\* row matches none
C19_Witness ==
    /\ opLast.op = "join"
    /\ opLast.join_type = "left"
    /\ \E i \in 1..Len(opData) : Cardinality(MatchesOf(i)) = 2
    /\ \E i \in 1..Len(opData) :
           /\ MatchesOf(i) = {}
           /\ \E n \in OutputOf(i) : DOMAIN opLast.result[n] = DOMAIN opData[i]

\* C16: when the working relation after the last step is longer than
\* context.max_rows, execute returns its first max_rows rows and metadata
\* says truncated; when it is not longer, the data is returned whole and
\* metadata has no truncated flag; in both cases row_count is the number of
\* rows returned and is at most max_rows
C16_RowCapTruncatesAndFlags ==
    opLast.op = "execute" =>
        /\ Len(opData) > opLast.max_rows =>
               /\ opLast.result = SubSeq(opData, 1, opLast.max_rows)
               /\ opLast.truncated
        /\ Len(opData) <= opLast.max_rows =>
               /\ opLast.result = opData
               /\ ~opLast.truncated
        /\ opLast.row_count = Len(opLast.result)
        /\ opLast.row_count <= opLast.max_rows

\* a relation of more rows than max_rows was cut to max_rows rows
C16_Witness ==
    /\ opLast.op = "execute"
    /\ Len(opData) > opLast.max_rows
    /\ opLast.max_rows > 0
    /\ opLast.truncated
    /\ opLast.row_count = opLast.max_rows

(***************************************************************************)
(* Claims about SchemaInference and RelationshipDetector                    *)
(***************************************************************************)
\* the names of the fields of the schema inferred for a collection
FieldNamesOf(schemas, collection) ==
    LET fields == SchemaOf(schemas, collection).fields
    IN  [i \in 1..Len(fields) |-> fields[i].name]

\* detect has just been handed the inferred schemas of users, whose one field
\* is id, and of orders, whose one field is user_id
UsersAndOrdersDetected ==
    /\ schDetected.called
    /\ ~schChanged
    /\ {schSchemas[i].collection : i \in 1..Len(schSchemas)} = SchemaCollections
    /\ FieldNamesOf(schSchemas, <<"u", "s", "e", "r", "s">>) = <<<<"i", "d">>>>
    /\ FieldNamesOf(schSchemas, <<"o", "r", "d", "e", "r", "s">>)
           = <<<<"u", "s", "e", "r", "_", "i", "d">>>>

\* C20: given the collections users with field id and orders with field
\* user_id, typed by the schema inference itself and with no sample data
\* handed to detect, detect returns a MANY_TO_ONE relationship
\* orders.user_id -> users.id with confidence 0.8 (8 tenths).
C20_NamingFindsOrdersToUsers ==
    UsersAndOrdersDetected =>
        \E i \in 1..Len(schDetected.relationships) :
            LET r == schDetected.relationships[i]
            IN  /\ r.source_collection = <<"o", "r", "d", "e", "r", "s">>
                /\ r.source_field = <<"u", "s", "e", "r", "_", "i", "d">>
                /\ r.target_collection = <<"u", "s", "e", "r", "s">>
                /\ r.target_field = <<"i", "d">>
                /\ r.relationship_type = "MANY_TO_ONE"
                /\ r.confidence = 8

(***************************************************************************)
(* Claims about the token bucket under load                                 *)
(***************************************************************************)
\* C21: the bucket is never overdrawn. Of the claim's bound on every window,
\* the windows that begin with the first acquire are checked: when an acquire
\* returns t seconds after the first one entered, at most rpm + t*rpm/60
\* acquires have returned; and once an acquire has had to sleep, the next
\* acquire does not return sooner than 60/rpm seconds after that sleep ended.
C21_BucketNeverOverdrawn ==
    [][limReturned' = limReturned + 1 =>
        /\ limReturned' * 60 * TicksPerSecond
              <= Rpm * 60 * TicksPerSecond + (clock' - limFirstAt') * Rpm
        /\ (limLock = "free" /\ limLastWait > 0) =>
              clock' - limWakeAt >= PeriodTicks
    ]_vars

(***************************************************************************)
(* Claims about the check-cache / compute / store sequences                 *)
(***************************************************************************)
\* two _call_llm calls with the same key have both missed the cache, both
\* invoked the provider and both stored their response
BothStored(t, u) ==
    /\ t # u
    /\ llmKey[t] = llmKey[u]
    /\ llmPc[t] = "returned" /\ llmPc[u] = "returned"
    /\ llmStored[t] # <<>> /\ llmStored[u] # <<>>

\* the _call_llm half of C22: the cache never holds two entries for one key,
\* and after two calls with the same key have both missed and both stored,
\* it holds the response that was written last.
LlmCacheHoldsLastWritten ==
    /\ \A i, j \in 1..Len(llmCache) : llmCache[i].key = llmCache[j].key => i = j
    /\ \A t, u \in Tasks :
          BothStored(t, u) =>
              LET i == LlmIndex(llmCache, llmKey[t])
                  a == llmStored[t][Len(llmStored[t])]
                  b == llmStored[u][Len(llmStored[u])]
              IN  i # 0 /\ llmCache[i].resp = (IF a > b THEN a ELSE b)

\* both calls were in flight together: each invoked the provider, and the
\* cache holds one entry
LlmBothMissed ==
    /\ \E t, u \in Tasks : BothStored(t, u) /\ llmCalls[t] >= 1 /\ llmCalls[u] >= 1
    /\ Len(llmCache) = 1

\* session s has just been returned a miss of engine.query with healthy
\* collaborators, and so had session o for the same prompt and context
SecondMiss(s, o) ==
    /\ s # o
    /\ engCalls'[s] = engCalls[s] + 1
    /\ engLast'[s].op = "query" /\ engLast[o].op = "query"
    /\ ~engLast'[s].cached /\ ~engLast[o].cached
    /\ engLast'[s].fail = "none" /\ engLast[o].fail = "none"
    /\ engLast'[s].prompt = engLast[o].prompt
    /\ engLast'[s].ctx = engLast[o].ctx

\* C22: the check-cache / compute / store sequence is not atomic, so two
\* identical requests can both miss and both compute; after both, the cache
\* holds exactly one entry for the key, the one written last. For
\* engine.query with caching enabled: when the second of two identical
\* queries has missed and returned, the result cache holds the entry that
\* query wrote.
C22_BothMissAndLastWriteStays ==
    [][\A s, o \in Sessions :
          (engCaching /\ SecondMiss(s, o)) =>
              LET key == CacheKey(engLast'[s].prompt, engLast'[s].ctx)
              IN  /\ key \in DOMAIN engCache'
                  /\ engCache'[key].ts = clock'
    ]_vars

(***************************************************************************)
(* Claims about the shape of the plans of QueryPlanner                      *)
(***************************************************************************)
\* the place of a step in the stage order FETCH, time FILTER, explicit FILTER,
\* JOIN, GROUP, AGGREGATE, COMPARE, SORT, LIMIT (0: no stage of the planner)
StageOf(step) ==
    CASE step.type = "FETCH" -> 1
      [] step.type = "FILTER" /\ step.params[1] = "time" -> 2
      [] step.type = "FILTER" /\ step.params[1] = "conditions" -> 3
      [] step.type = "JOIN" -> 4
      [] step.type = "AGGREGATE" /\ step.params[1] = "group_by" -> 5
      [] step.type = "AGGREGATE" /\ step.params[1] = "function" -> 6
      [] step.type = "COMPARE" -> 7
      [] step.type = "SORT" -> 8
      [] step.type = "LIMIT" -> 9
      [] OTHER -> 0

\* the intents one of which a stage needs (the time filter and LIMIT are
\* triggered by the prompt, not by an intent)
StageIntents(stage) ==
    CASE stage = 3 -> {"filter"}
      [] stage = 4 -> {"join"}
      [] stage = 5 -> {"group"}
      [] stage = 6 -> {"aggregate", "count"}
      [] stage = 7 -> {"compare"}
      [] stage = 8 -> {"sort"}
      [] OTHER -> {}

\* C23: every plan of create_plan starts with its only FETCH step, which has
\* no dependency; the other steps follow in the stage order time FILTER,
\* explicit FILTER, JOIN(s), GROUP, AGGREGATE, COMPARE, SORT, LIMIT, each
\* stage at most once except JOIN and only where its intent was detected;
\* every step but the first depends on exactly the step before it; and
\* can_parallelize is false.
C23_PlanIsLinearChainInStageOrder ==
    planCalls > 0 =>
        /\ PlanSteps # <<>>
        /\ PlanSteps[1].type = "FETCH"
        /\ PlanSteps[1].dependencies = <<>>
        /\ \A i \in 2..Len(PlanSteps) :
              /\ PlanSteps[i].type # "FETCH"
              /\ PlanSteps[i].dependencies = <<PlanSteps[i - 1].id>>
              /\ StageOf(PlanSteps[i]) # 0
              /\ StageOf(PlanSteps[i - 1]) <= StageOf(PlanSteps[i])
              /\ StageOf(PlanSteps[i - 1]) = StageOf(PlanSteps[i])
                    => PlanSteps[i].type = "JOIN"
              /\ StageIntents(StageOf(PlanSteps[i])) # {}
                    => StageIntents(StageOf(PlanSteps[i])) \cap planLast.intents # {}
        /\ \A i, j \in 1..Len(PlanSteps) :
              i # j => PlanSteps[i].dependencies # PlanSteps[j].dependencies
        /\ ~planLast.can_parallelize

\* a plan of four steps of four different stages
C23_Witness ==
    /\ planCalls > 0
    /\ Len(PlanSteps) >= 4
    /\ Cardinality({StageOf(PlanSteps[i]) : i \in 1..Len(PlanSteps)}) >= 4

\* the schema collections the prompt of the latest plan refers to
ReferencedCollections ==
    LET found == ExtractEntities(planLast.query, planLast.schema).collections
    IN  {found[i] : i \in 1..Len(found)}

\* the positions of the JOIN steps of the latest plan
JoinPositions == {i \in 1..Len(PlanSteps) : PlanSteps[i].type = "JOIN"}

\* C24: create_plan emits a JOIN step only when the join intent is detected
\* and the prompt refers to at least two distinct schema collections, and
\* then exactly one JOIN per distinct secondary collection; a prompt that
\* names a single collection gets no JOIN step, and no JOIN step joins the
\* primary collection with itself.
C24_JoinsOnlyDistinctSecondaries ==
    (planCalls > 0 /\ JoinPositions # {}) =>
        LET primary == PlanSteps[1].collection
            secondaries == ReferencedCollections \ {primary}
        IN  /\ "join" \in planLast.intents
            /\ Cardinality(ReferencedCollections) >= 2
            /\ \A i \in JoinPositions :
                  /\ PlanSteps[i].collection # primary
                  /\ PlanSteps[i].collection \in secondaries
            /\ \A c \in secondaries :
                  Cardinality({i \in JoinPositions : PlanSteps[i].collection = c}) = 1

(***************************************************************************)
(* Claims about AIQueryOptimizer                                            *)
(***************************************************************************)
IsListed(name) ==
    \E i \in DOMAIN optResult.optimizations_applied :
        optResult.optimizations_applied[i] = name

\* C25: a rewrite pass is listed in optimizations_applied if and only if it
\* changed the plan it was given: predicate_pushdown is not listed for a plan
\* whose FILTER steps already follow the scan, and join_reorder is not listed
\* for a plan whose joins are left in their order.
C25_ListedIffPassChangedPlan ==
    optResult.called =>
        LET pushed == PushdownPredicates(optBefore)
            reordered == ReorderJoins(pushed.steps)
        IN  /\ IsListed("predicate_pushdown") <=> pushed.steps # optBefore
            /\ IsListed("join_reorder") <=> reordered.steps # pushed.steps

StepIds(steps) == [i \in DOMAIN steps |-> steps[i].id]

\* the scan a FILTER step belongs to: the nearest scan before it, or the
\* first scan of the plan when none precedes it; Null in a plan without scan
ScanOf(steps, i) ==
    LET scans == {k \in DOMAIN steps : IsScan(steps[k])}
        earlier == {k \in scans : k < i}
    IN  IF scans = {} THEN Null
        ELSE IF earlier = {} THEN steps[CHOOSE k \in scans : \A m \in scans : k <= m].id
        ELSE steps[CHOOSE k \in earlier : \A m \in earlier : k >= m].id

\* step j is a FILTER in the run of FILTER steps that directly follows scan k
FollowsScan(steps, j, k) ==
    /\ k < j
    /\ IsScan(steps[k])
    /\ \A m \in (k + 1)..j : IsFilter(steps[m])

\* C26: predicate pushdown only reorders: the plan after the pass holds
\* exactly the steps it held before, each once, the non-filter steps keep
\* their relative order, and each FILTER step directly follows the nearest
\* scan that preceded it, never standing before the first scan.
C26_PushdownOnlyReorders ==
    optResult.called =>
        /\ Len(optPlan) = Len(optBefore)
        /\ \A i \in DOMAIN optBefore :
               Cardinality({j \in DOMAIN optPlan : optPlan[j].id = optBefore[i].id}) = 1
        /\ StepIds(SelectSeq(optPlan, IsOther)) = StepIds(SelectSeq(optBefore, IsOther))
        /\ \A i \in DOMAIN optBefore :
               (IsFilter(optBefore[i]) /\ ScanOf(optBefore, i) # Null) =>
                   \A j \in DOMAIN optPlan :
                       optPlan[j].id = optBefore[i].id =>
                           \E k \in DOMAIN optPlan :
                               /\ FollowsScan(optPlan, j, k)
                               /\ optPlan[k].id = ScanOf(optBefore, i)

\* C30: optimize leaves the plan it is given as it was: after the call the
\* caller's plan has the steps and step attributes it had before,
\* original_plan describes that plan and differs from optimized_plan whenever
\* a pass changed something, and the recommendations are those of that plan.
C30_OptimizeLeavesInputPlanUnchanged ==
    optResult.called =>
        /\ optPlan = optBefore
        /\ optResult.original_plan = PlanToDict(optBefore)
        /\ optResult.optimizations_applied # <<>> =>
               optResult.original_plan # optResult.optimized_plan
        /\ \E schema \in OptSchemas :
               optResult.index_recommendations = GenerateIndexRecommendations(optBefore, schema)

(***************************************************************************)
(* Claims about MultiStepReasoner                                           *)
(***************************************************************************)
\* C27: for every prompt, plan and max_steps >= 1 the trace returned by
\* reason holds at most max_steps reasoning steps, the closing SYNTHESIZE and
\* VALIDATE steps included.
C27_TraceWithinMaxSteps ==
    reaResult.called => Len(reaResult.trace) <= reaResult.max_steps

(***************************************************************************)
(* Claims about overlapping executions                                      *)
(***************************************************************************)
\* C28: every in-flight execution is tracked separately: two execute calls
\* that overlap, also when started within the same millisecond, have distinct
\* ids, and while an execution runs its own ExecutionState is the entry of
\* active_executions under its id, whatever the other execution does.
C28_RunningExecutionsTrackedSeparately ==
    \A t \in Tasks :
        execPc[t] = "running" =>
            /\ \A u \in Tasks \ {t} : execPc[u] = "running" => execId[u] # execId[t]
            /\ execId[t] \in DOMAIN active
            /\ active[execId[t]] = t

(***************************************************************************)
(* Claims about the rate limiter inside _call_llm                           *)
(***************************************************************************)
RECURSIVE ProviderCalls(_, _)
ProviderCalls(calls, tasks) ==
    IF tasks = {} THEN 0
    ELSE LET t == CHOOSE u \in tasks : TRUE
         IN  calls[t] + ProviderCalls(calls, tasks \ {t})

\* C29: every provider invocation is preceded by its own acquire: the
\* invocations made by the calls under way never outnumber the acquires that
\* have returned, a retry included, and a call answered from the cache
\* reaches neither the limiter nor the provider.
C29_EveryProviderCallHasItsAcquire ==
    [][/\ ProviderCalls(llmCalls', Tasks) <= limReturned'
       /\ \A t \in Tasks :
              (llmStarted' = llmStarted + 1 /\ llmPc'[t] = "returned"
                  /\ llmPc[t] \in {"idle", "returned", "raised"}
                  /\ \A u \in Tasks \ {t} : llmPc'[u] = llmPc[u])
                  => /\ UNCHANGED limVars
                     /\ llmCalls'[t] = 0
                     /\ UNCHANGED llmResponses]_vars

====
